---- MODULE Spec2Model ----
(***************************************************************************)
(* Protocol dispatch of the Radius MCP servers.                            *)
(*                                                                         *)
(*   stdio_mcp_server.py    handle_request, execute_radius_command, main   *)
(*   claude_mcp_wrapper.py  MCPRequestHandler.do_POST,                     *)
(*                          execute_radius_command                         *)
(*                                                                         *)
(* A decoded JSON value is a record with a fixed set of fields; a key that *)
(* the JSON object does not have holds ABSENT, JSON null holds NULL.       *)
(* Standard output is taken to be writable: print never fails, so the     *)
(* `except Exception` branch of the stdio loop (lines 419-432) is never    *)
(* entered: handle_request catches every exception itself.                 *)
(*                                                                         *)
(* Inputs: "method", "toolName" and "messageType" are strings, null or     *)
(* missing; "params", "toolParams" and "parameters" may be of any JSON     *)
(* type.  The argument list built for the external process is not kept:    *)
(* the process is an input whose outcome is chosen freely.                 *)
(***************************************************************************)
EXTENDS Integers, Sequences, FiniteSets, TLC

ABSENT == "<absent>"
NULL == "<null>"

(***************************************************************************)
(* JSON-RPC error codes used by the dispatchers.                           *)
(***************************************************************************)
PARSE_ERROR == -32700
METHOD_NOT_FOUND == -32601
INVALID_PARAMS == -32602
SERVER_ERROR == -32000

(***************************************************************************)
(* TOOLS: the static registry, in registration order.                      *)
(***************************************************************************)
ToolOrder ==
    << "radius_version", "radius_list_applications",
       "radius_show_application", "radius_deploy_application" >>

TOOLS == { ToolOrder[i] : i \in 1..Len(ToolOrder) }

BaseDescription(tool_name) ==
    CASE tool_name = "radius_version" -> "Get the Radius CLI version"
      [] tool_name = "radius_list_applications" -> "List all Radius applications"
      [] tool_name = "radius_show_application" -> "Get details of a Radius application"
      [] tool_name = "radius_deploy_application" -> "Deploy a Radius application"

ToolDescription(tool_name, rad) ==
    IF rad THEN BaseDescription(tool_name)
    ELSE BaseDescription(tool_name) \o " (UNAVAILABLE: 'rad' command not found)"

(***************************************************************************)
(* METADATA["tools"]: one {name, description} per key of TOOLS, in order.  *)
(***************************************************************************)
(* Mutant: the last entry lists a name that is no key of TOOLS. *)
MetadataTools_Renamed(rad) ==
    [ i \in 1..Len(ToolOrder) |->
        [ name |-> IF i = Len(ToolOrder) THEN "radius_delete_application"
                   ELSE ToolOrder[i],
          description |-> ToolDescription(ToolOrder[i], rad) ] ]

MetadataTools(rad) ==
    [ i \in 1..Len(ToolOrder) |->
        [ name |-> ToolOrder[i], description |-> ToolDescription(ToolOrder[i], rad) ] ]

MetadataDescription(rad) ==
    IF rad THEN "Access Radius CLI tools for managing applications"
    ELSE "Access Radius CLI tools for managing applications (NOTE: 'rad' command not found in PATH)"

StdioTitle == "Radius MCP Server (stdio)"
WrapperTitle == "Radius MCP Server"

(***************************************************************************)
(* Shapes of decoded JSON values.                                          *)
(*                                                                         *)
(* toolParams / parameters: kind "absent" (key missing), "null",           *)
(* "emptylist" (a falsy value that is no mapping), "str" (a truthy value   *)
(* that is no mapping) or "map" (a JSON object with the keys that are not  *)
(* ABSENT).                                                                *)
(***************************************************************************)
NoToolParams ==
    [ kind |-> "absent", name |-> ABSENT, namespace |-> ABSENT,
      file |-> ABSENT, application |-> ABSENT ]

ToolParamsMap(name, namespace, file, application) ==
    [ kind |-> "map", name |-> name, namespace |-> namespace,
      file |-> file, application |-> application ]

ToolParamsOther(kind) == [ NoToolParams EXCEPT !.kind = kind ]

(* params: kind "absent", "null", "list" (no mapping) or "map". *)
NoParams ==
    [ kind |-> "absent", protocolVersion |-> ABSENT, toolName |-> ABSENT,
      toolParams |-> NoToolParams ]

ParamsMap(protocolVersion, toolName, toolParams) ==
    [ kind |-> "map", protocolVersion |-> protocolVersion, toolName |-> toolName,
      toolParams |-> toolParams ]

ParamsOther(kind) == [ NoParams EXCEPT !.kind = kind ]

(* One decoded line or body: kind "dict" (a JSON object) or "list". *)
Request(jsonrpc, id, method, params, messageType, toolName, parameters) ==
    [ kind |-> "dict", jsonrpc |-> jsonrpc, id |-> id, method |-> method,
      params |-> params, messageType |-> messageType, toolName |-> toolName,
      parameters |-> parameters ]

NonDictRequest ==
    [ Request(ABSENT, ABSENT, ABSENT, NoParams, ABSENT, ABSENT, NoToolParams)
        EXCEPT !.kind = "list" ]

JsonRpc(id, method, params) ==
    Request("2.0", id, method, params, ABSENT, ABSENT, NoToolParams)

Legacy(messageType, toolName, parameters) ==
    Request(ABSENT, ABSENT, ABSENT, NoParams, messageType, toolName, parameters)

(***************************************************************************)
(* dict.get on the shapes above.                                           *)
(***************************************************************************)
(* d.get(key): None when the key is missing. *)
Get(value) == IF value = ABSENT THEN NULL ELSE value

(* d.get(key, default) for a string default. *)
GetOr(value, default) == IF value = ABSENT THEN default ELSE value

(* `not x` for x = d.get(key): None and the empty string are falsy. *)
Falsy(value) == value \in { ABSENT, NULL, "" }

(* request_data.get("params", {}) / params.get("toolParams", {}) is a mapping. *)
IsMapping(v) == v.kind \in { "absent", "map" }

(* `params = params or {}` in the runners: falsy values become {}. *)
OrEmpty(tool_params) ==
    IF tool_params.kind \in { "absent", "null", "emptylist" }
    THEN ToolParamsMap(ABSENT, ABSENT, ABSENT, ABSENT)
    ELSE tool_params

(* str(x) inside an f-string: None prints as "None". *)
Str(value) == IF value \in { ABSENT, NULL } THEN "None" ELSE value

(***************************************************************************)
(* The external `rad` process, as the runner sees it: it exits 0 with some *)
(* standard output (text), exits non-zero with some standard error, or     *)
(* cannot be started (text is the exception's message).                    *)
(***************************************************************************)
JsonObjectText == "{\"name\": \"app\"}"
JsonArrayText == "[\"app\"]"
BrokenJsonText == "{not json"
PlainText == "RELEASE 0.40"

Stdouts == { "", "\n", PlainText \o "\n", JsonObjectText \o "\n", JsonArrayText,
             BrokenJsonText \o "\n" }

NoProc == [ kind |-> "none", text |-> "" ]

ProcOutcomes ==
    { [ kind |-> "exit0", text |-> t ] : t \in Stdouts }
    \cup { [ kind |-> "nonzero", text |-> " rad: no workspace\n" ],
           [ kind |-> "oserror", text |-> "[Errno 8] Exec format error" ] }

(* str.strip(), on the texts above *)
Strip(text) ==
    CASE text = "\n" -> ""
      [] text = PlainText \o "\n" -> PlainText
      [] text = JsonObjectText \o "\n" -> JsonObjectText
      [] text = BrokenJsonText \o "\n" -> BrokenJsonText
      [] text = " rad: no workspace\n" -> "rad: no workspace"
      [] OTHER -> text

(* output.startswith('{') or output.startswith('[') *)
StartsWithBracket(text) == text \in { JsonObjectText, JsonArrayText, BrokenJsonText }

(* json.loads(output) succeeds *)
JsonLoads(text) == text \in { JsonObjectText, JsonArrayText }

(***************************************************************************)
(* A tool result {output?, data?, error?}.                                 *)
(***************************************************************************)
ToolResult(output, data, error) == [ output |-> output, data |-> data, error |-> error ]

NoResult == ToolResult(ABSENT, ABSENT, ABSENT)

(* What one call of a runner did: it returned `result`, or it raised `exc`;   *)
(* spawned says whether subprocess.run was reached.                          *)
Returned(result, spawned) ==
    [ raised |-> FALSE, exc |-> "", spawned |-> spawned, result |-> result ]

Raised(exc) == [ raised |-> TRUE, exc |-> exc, spawned |-> FALSE, result |-> NoResult ]

AttributeErrorGet == "object has no attribute 'get'"

UnavailableOutput(tool_name) ==
    "ERROR: Cannot execute " \o tool_name
        \o " because 'rad' command is not available in PATH.\n"
        \o "Please make sure the Radius CLI is installed and in your PATH."

UnavailableError == "Radius CLI ('rad') not found"
NameRequired == "Application name is required"
BicepRequired == "Bicep file path is required"
FileRequired == "File path is required"

(* The messages above that contain the word "required". *)
ContainsRequired(message) == message \in { NameRequired, BicepRequired, FileRequired }

(***************************************************************************)
(* subprocess.run(...) and what follows it; the same in both runners.      *)
(***************************************************************************)
(* Mutant: data is set whenever the output starts with a bracket. *)
RunProcess_DataUnparsed(tool_name, proc) ==
    CASE proc.kind = "oserror" ->
            LET error_msg == "Error executing command: " \o proc.text
            IN  Returned(ToolResult(error_msg, ABSENT, error_msg), TRUE)
      [] proc.kind = "nonzero" ->
            LET error_msg == "Command failed with exit code 1: " \o Strip(proc.text)
            IN  Returned(ToolResult(error_msg, ABSENT, error_msg), TRUE)
      [] OTHER ->
            LET output == Strip(proc.text)
            IN  IF /\ tool_name \in { "radius_list_applications", "radius_show_application" }
                   /\ StartsWithBracket(output)
                THEN Returned(ToolResult(output, output, ABSENT), TRUE)
                ELSE Returned(ToolResult(output, ABSENT, ABSENT), TRUE)

RunProcess(tool_name, proc) ==
    CASE proc.kind = "oserror" ->
            LET error_msg == "Error executing command: " \o proc.text
            IN  Returned(ToolResult(error_msg, ABSENT, error_msg), TRUE)
      [] proc.kind = "nonzero" ->
            LET error_msg == "Command failed with exit code 1: " \o Strip(proc.text)
            IN  Returned(ToolResult(error_msg, ABSENT, error_msg), TRUE)
      [] OTHER ->
            LET output == Strip(proc.text)
            IN  IF /\ tool_name \in { "radius_list_applications", "radius_show_application" }
                   /\ output # ""
                   /\ StartsWithBracket(output)
                   /\ JsonLoads(output)
                THEN Returned(ToolResult(output, output, ABSENT), TRUE)
                ELSE Returned(ToolResult(output, ABSENT, ABSENT), TRUE)

(***************************************************************************)
(* stdio_mcp_server.execute_radius_command                                 *)
(***************************************************************************)
StdioRunnerUnavailable(tool_name) ==
    Returned(ToolResult(UnavailableOutput(tool_name), ABSENT, UnavailableError), FALSE)

(* Mutant: radius_show_application does not check that name is given. *)
StdioArgs_NoNameCheck(tool_name, params, proc) ==
    IF tool_name = "radius_version" THEN RunProcess(tool_name, proc)
    ELSE IF ~IsMapping(params) THEN Raised(AttributeErrorGet)
    ELSE IF tool_name = "radius_deploy_application" /\ Falsy(params.file)
    THEN Returned(ToolResult(ABSENT, ABSENT, BicepRequired), FALSE)
    ELSE RunProcess(tool_name, proc)

StdioArgs(tool_name, params, proc) ==
    IF tool_name = "radius_version" THEN RunProcess(tool_name, proc)
    ELSE IF ~IsMapping(params) THEN Raised(AttributeErrorGet)
    ELSE IF tool_name = "radius_show_application" /\ Falsy(params.name)
    THEN Returned(ToolResult(ABSENT, ABSENT, NameRequired), FALSE)
    ELSE IF tool_name = "radius_deploy_application" /\ Falsy(params.file)
    THEN Returned(ToolResult(ABSENT, ABSENT, BicepRequired), FALSE)
    ELSE RunProcess(tool_name, proc)

(* Mutant: the parameters are read before RAD_AVAILABLE is looked at. *)
StdioExecuteRadiusCommand_ArgsFirst(tool_name, tool_params, rad, proc) ==
    LET params == OrEmpty(tool_params)
    IN  IF tool_name \notin TOOLS
        THEN Returned(ToolResult(ABSENT, ABSENT, "Unknown tool: " \o Str(tool_name)), FALSE)
        ELSE IF tool_name # "radius_version" /\ ~IsMapping(params)
        THEN Raised(AttributeErrorGet)
        ELSE IF ~rad
        THEN StdioRunnerUnavailable(tool_name)
        ELSE StdioArgs(tool_name, params, proc)

StdioExecuteRadiusCommand(tool_name, tool_params, rad, proc) ==
    LET params == OrEmpty(tool_params)
    IN  IF tool_name \notin TOOLS
        THEN Returned(ToolResult(ABSENT, ABSENT, "Unknown tool: " \o Str(tool_name)), FALSE)
        ELSE IF ~rad
        THEN StdioRunnerUnavailable(tool_name)
        ELSE StdioArgs(tool_name, params, proc)

(***************************************************************************)
(* claude_mcp_wrapper.execute_radius_command: the same runner, but         *)
(* radius_show_application reads "application" and the deploy message      *)
(* differs.                                                                *)
(***************************************************************************)
WrapperRunnerUnavailable(tool_name) ==
    Returned(ToolResult(UnavailableOutput(tool_name), ABSENT, UnavailableError), FALSE)

WrapperArgs(tool_name, params, proc) ==
    IF tool_name = "radius_version" THEN RunProcess(tool_name, proc)
    ELSE IF ~IsMapping(params) THEN Raised(AttributeErrorGet)
    ELSE IF tool_name = "radius_show_application" /\ Falsy(params.application)
    THEN Returned(ToolResult(ABSENT, ABSENT, NameRequired), FALSE)
    ELSE IF tool_name = "radius_deploy_application" /\ Falsy(params.file)
    THEN Returned(ToolResult(ABSENT, ABSENT, FileRequired), FALSE)
    ELSE RunProcess(tool_name, proc)

WrapperExecuteRadiusCommand(tool_name, tool_params, rad, proc) ==
    LET params == OrEmpty(tool_params)
    IN  IF tool_name \notin TOOLS
        THEN Returned(ToolResult(ABSENT, ABSENT, "Unknown tool: " \o Str(tool_name)), FALSE)
        ELSE IF ~rad
        THEN WrapperRunnerUnavailable(tool_name)
        ELSE WrapperArgs(tool_name, params, proc)

(***************************************************************************)
(* Response objects.  A payload is the content of "result" (or, for a bare *)
(* legacy response, the top-level object): the fields it does not have are *)
(* ABSENT or empty.  The metadata embedded in the stdio initialize result  *)
(* is kept in the title/description/tools fields of the same payload.      *)
(***************************************************************************)
NoPayload ==
    [ kind |-> "absent", protocolVersion |-> ABSENT, schema |-> ABSENT,
      serverInfoName |-> ABSENT, title |-> ABSENT, description |-> ABSENT,
      tools |-> << >>, version |-> ABSENT, name |-> ABSENT, properties |-> {},
      required |-> << >>, output |-> ABSENT, data |-> ABSENT, error |-> ABSENT,
      status |-> ABSENT ]

ToolPayload(result) ==
    [ NoPayload EXCEPT !.kind = "toolResult", !.output = result.output,
                       !.data = result.data, !.error = result.error ]

(* "error": absent, a JSON-RPC error object {code, message}, or a bare string. *)
NoError == [ kind |-> "absent", code |-> 0, message |-> "" ]
ErrorObject(code, message) == [ kind |-> "object", code |-> code, message |-> message ]
ErrorString(message) == [ kind |-> "string", code |-> 0, message |-> message ]

(* None: no response. *)
NoResponse ==
    [ kind |-> "none", jsonrpc |-> ABSENT, id |-> ABSENT, result |-> NoPayload,
      error |-> NoError, top |-> NoPayload ]

(* {"jsonrpc": "2.0", "id": request_id} *)
Envelope(request_id) ==
    [ NoResponse EXCEPT !.kind = "jsonrpc", !.jsonrpc = "2.0", !.id = request_id ]

WithResult(response, payload) == [ response EXCEPT !.result = payload ]

WithError(response, code, message) ==
    [ response EXCEPT !.error = ErrorObject(code, message) ]

(* {"error": message} *)
BareError(message) ==
    [ NoResponse EXCEPT !.kind = "bare", !.error = ErrorString(message) ]

(* A bare object without jsonrpc and id. *)
Bare(payload) == [ NoResponse EXCEPT !.kind = "bare", !.top = payload ]

(* A tool result returned as the response itself (legacy toolExecution). *)
BareToolResult(result) ==
    [ NoResponse EXCEPT !.kind = "bare", !.top = ToolPayload(result),
        !.error = IF result.error = ABSENT THEN NoError ELSE ErrorString(result.error) ]

HasResult(response) == response.result.kind # "absent"
HasError(response) == response.error.kind # "absent"

(* A handling that did not call the runner. *)
NoRun == [ raised |-> FALSE, exc |-> "", spawned |-> FALSE, result |-> NoResult ]

(* What handling one request did: the response (NoResponse for None), the  *)
(* number of calls of the runner, whether the external process was started *)
(* and what the runner call did.                                           *)
Handled(response, calls, spawned) ==
    [ response |-> response, calls |-> calls, spawned |-> spawned, run |-> NoRun ]

HandledRun(response, run) ==
    [ response |-> response, calls |-> 1, spawned |-> run.spawned, run |-> run ]

(* method.startswith("notifications/") *)
StartsWithNotifications(method) ==
    method \in { "notifications/initialized", "notifications/cancelled" }

(* The inputSchema built by getToolSpec (both servers build the same one). *)
SchemaProperties(tool_name) ==
    CASE tool_name = "radius_list_applications" -> { "namespace" }
      [] tool_name = "radius_show_application" -> { "name", "namespace" }
      [] tool_name = "radius_deploy_application" -> { "file", "name", "namespace" }
      [] OTHER -> {}

SchemaRequired(tool_name) ==
    CASE tool_name = "radius_show_application" -> << "name" >>
      [] tool_name = "radius_deploy_application" -> << "file" >>
      [] OTHER -> << >>

ToolSpecPayload(tool_name, rad) ==
    [ NoPayload EXCEPT !.kind = "toolSpec", !.name = tool_name,
        !.description = ToolDescription(tool_name, rad),
        !.properties = SchemaProperties(tool_name),
        !.required = SchemaRequired(tool_name) ]

(* METADATA of either server. *)
MetadataPayload(title, rad) ==
    [ NoPayload EXCEPT !.kind = "metadata", !.title = title,
        !.description = MetadataDescription(rad), !.tools = MetadataTools(rad),
        !.version = "1.0.0" ]

(***************************************************************************)
(* stdio_mcp_server.handle_request                                         *)
(***************************************************************************)
(* except Exception as e: return {"error": f"Error processing request: ..."} *)
StdioOuterExcept(exc) == BareError("Error processing request: " \o exc)

StdioInitialize(response, params, rad) ==
    IF ~IsMapping(params)
    THEN Handled(StdioOuterExcept(AttributeErrorGet), 0, FALSE)
    ELSE Handled(
            WithResult(response,
                [ NoPayload EXCEPT !.kind = "initialize",
                    !.protocolVersion = GetOr(params.protocolVersion, "2023-07-01"),
                    !.schema = "2023-07-01",
                    !.serverInfoName = StdioTitle,
                    !.version = "1.0.0",
                    !.title = StdioTitle,
                    !.description = MetadataDescription(rad),
                    !.tools = MetadataTools(rad) ]),
            0, FALSE)

StdioGetMetadata(response, rad) ==
    Handled(WithResult(response, MetadataPayload(StdioTitle, rad)), 0, FALSE)

StdioGetToolSpec(response, params, rad) ==
    IF ~IsMapping(params)
    THEN Handled(StdioOuterExcept(AttributeErrorGet), 0, FALSE)
    ELSE LET tool_name == GetOr(params.toolName, "")
         IN  IF tool_name \in TOOLS
             THEN Handled(WithResult(response, ToolSpecPayload(tool_name, rad)), 0, FALSE)
             ELSE Handled(
                    WithError(response, INVALID_PARAMS, "Unknown tool: " \o Str(tool_name)),
                    0, FALSE)

(* Mutant: the error is added to a response that keeps the result. *)
StdioToolOutcome_KeepsResult(response, result, rad) ==
    IF result.error # ABSENT /\ rad
    THEN WithError(WithResult(response, ToolPayload(result)), SERVER_ERROR, result.error)
    ELSE WithResult(response, ToolPayload(result))

(* Lines 323-334: what becomes of a tool result. *)
StdioToolOutcome(response, result, rad) ==
    IF result.error # ABSENT
    THEN IF ~rad
         THEN WithResult(response, ToolPayload(result))
         ELSE WithError(response, SERVER_ERROR, result.error)
    ELSE WithResult(response, ToolPayload(result))

(* Mutant: the registry is not consulted before the runner is called. *)
StdioExecuteTool_NoRegistryCheck(response, params, rad, proc) ==
    IF ~IsMapping(params)
    THEN Handled(StdioOuterExcept(AttributeErrorGet), 0, FALSE)
    ELSE LET tool_name == GetOr(params.toolName, "")
             tool_params == params.toolParams
             run == StdioExecuteRadiusCommand(tool_name, tool_params, rad, proc)
         IN  IF run.raised
             THEN HandledRun(
                    WithError(response, SERVER_ERROR, "Error executing tool: " \o run.exc),
                    run)
             ELSE HandledRun(StdioToolOutcome(response, run.result, rad), run)

StdioExecuteTool(response, params, rad, proc) ==
    IF ~IsMapping(params)
    THEN Handled(StdioOuterExcept(AttributeErrorGet), 0, FALSE)
    ELSE LET tool_name == GetOr(params.toolName, "")
             tool_params == params.toolParams
             run == StdioExecuteRadiusCommand(tool_name, tool_params, rad, proc)
         IN  IF tool_name \in TOOLS
             THEN IF run.raised
                  THEN HandledRun(
                         WithError(response, SERVER_ERROR,
                                   "Error executing tool: " \o run.exc),
                         run)
                  ELSE HandledRun(StdioToolOutcome(response, run.result, rad), run)
             ELSE Handled(
                    WithError(response, INVALID_PARAMS, "Unknown tool: " \o Str(tool_name)),
                    0, FALSE)

(* Mutant: an unknown method is reported as invalid params. *)
StdioMethodNotFound_InvalidParams(response, method) ==
    Handled(WithError(response, INVALID_PARAMS, "Method not found: " \o method),
            0, FALSE)

StdioMethodNotFound(response, method) ==
    Handled(WithError(response, METHOD_NOT_FOUND, "Method not found: " \o method),
            0, FALSE)

(* Mutant: the method is compared with the prefix instead of tested for it. *)
StdioIsNotification_Exact(request_id, method) ==
    request_id = NULL /\ method = "notifications/"

StdioIsNotification(request_id, method) ==
    request_id = NULL /\ StartsWithNotifications(method)

StdioJsonRpc(request_data, rad, proc) ==
    LET request_id == Get(request_data.id)
        method == GetOr(request_data.method, "")
        params == request_data.params
        response == Envelope(request_id)
    IN  IF StdioIsNotification(request_id, method)
        THEN Handled(NoResponse, 0, FALSE)
        ELSE CASE method = "initialize" -> StdioInitialize(response, params, rad)
               [] method = "getMetadata" -> StdioGetMetadata(response, rad)
               [] method = "getToolSpec" -> StdioGetToolSpec(response, params, rad)
               [] method = "executeTool" -> StdioExecuteTool(response, params, rad, proc)
               [] OTHER -> StdioMethodNotFound(response, method)

(* Mutant: a message type that is not known is dropped without an answer. *)
StdioLegacy_UnknownSuppressed(request_data, rad, proc) ==
    LET message_type == Get(request_data.messageType)
    IN  IF message_type = "getMeta"
        THEN Handled(
                Bare([ NoPayload EXCEPT !.kind = "legacyMeta", !.title = StdioTitle,
                        !.description = MetadataDescription(rad),
                        !.tools = MetadataTools(rad) ]),
                0, FALSE)
        ELSE Handled(NoResponse, 0, FALSE)

(* Mutant: legacy toolExecution hands every tool name to the runner. *)
StdioLegacy_RunsUnknownTool(request_data, rad, proc) ==
    LET message_type == Get(request_data.messageType)
        run == StdioExecuteRadiusCommand(Get(request_data.toolName),
                                         request_data.parameters, rad, proc)
    IN  CASE message_type = "getMeta" ->
                Handled(
                    Bare([ NoPayload EXCEPT !.kind = "legacyMeta", !.title = StdioTitle,
                            !.description = MetadataDescription(rad),
                            !.tools = MetadataTools(rad) ]),
                    0, FALSE)
          [] message_type = "toolExecution" ->
                IF run.raised
                THEN HandledRun(StdioOuterExcept(run.exc), run)
                ELSE HandledRun(BareToolResult(run.result), run)
          [] OTHER ->
                Handled(BareError("Unknown message type: " \o Str(message_type)), 0, FALSE)

StdioLegacy(request_data, rad, proc) ==
    LET message_type == Get(request_data.messageType)
        tool_name == Get(request_data.toolName)
        tool_params == request_data.parameters
        run == StdioExecuteRadiusCommand(tool_name, tool_params, rad, proc)
    IN  CASE message_type = "getMeta" ->
                Handled(
                    Bare([ NoPayload EXCEPT !.kind = "legacyMeta", !.title = StdioTitle,
                            !.description = MetadataDescription(rad),
                            !.tools = MetadataTools(rad) ]),
                    0, FALSE)
          [] message_type = "toolExecution" ->
                IF tool_name \in TOOLS
                THEN IF run.raised
                     THEN HandledRun(StdioOuterExcept(run.exc), run)
                     ELSE HandledRun(BareToolResult(run.result), run)
                ELSE Handled(BareError("Unknown tool: " \o Str(tool_name)), 0, FALSE)
          [] OTHER ->
                Handled(BareError("Unknown message type: " \o Str(message_type)), 0, FALSE)

StdioHandleRequest(request_data, rad, proc) ==
    IF request_data.kind # "dict"
    THEN Handled(StdioOuterExcept(AttributeErrorGet), 0, FALSE)
    ELSE IF request_data.jsonrpc = "2.0"
    THEN StdioJsonRpc(request_data, rad, proc)
    ELSE StdioLegacy(request_data, rad, proc)

(***************************************************************************)
(* claude_mcp_wrapper.MCPRequestHandler.do_POST: the dispatch of a decoded *)
(* body.  Every response is built whole; there is no notification case.    *)
(***************************************************************************)
(* except Exception as e: {"error": f"Error processing request: ..."} *)
WrapperOuterExcept(exc) == BareError("Error processing request: " \o exc)

WrapperInitialize(request_id, params) ==
    IF ~IsMapping(params)
    THEN Handled(WrapperOuterExcept(AttributeErrorGet), 0, FALSE)
    ELSE Handled(
            WithResult(Envelope(request_id),
                [ NoPayload EXCEPT !.kind = "initialize",
                    !.protocolVersion = GetOr(params.protocolVersion, "2024-11-05"),
                    !.schema = "2024-11-05",
                    !.serverInfoName = WrapperTitle,
                    !.version = "1.0.0" ]),
            0, FALSE)

WrapperGetMetadata(request_id, rad) ==
    Handled(WithResult(Envelope(request_id), MetadataPayload(WrapperTitle, rad)), 0, FALSE)

WrapperGetToolSpec(request_id, params, rad) ==
    IF ~IsMapping(params)
    THEN Handled(WrapperOuterExcept(AttributeErrorGet), 0, FALSE)
    ELSE LET tool_name == GetOr(params.toolName, "")
         IN  IF tool_name \in TOOLS
             THEN Handled(
                    WithResult(Envelope(request_id), ToolSpecPayload(tool_name, rad)),
                    0, FALSE)
             ELSE Handled(
                    WithError(Envelope(request_id), INVALID_PARAMS,
                              "Unknown tool: " \o Str(tool_name)),
                    0, FALSE)

(* Mutant: the tool's output, not its error, becomes the message. *)
WrapperToolOutcome_OutputAsMessage(request_id, result, rad) ==
    IF result.error # ABSENT
    THEN IF ~rad
         THEN WithResult(Envelope(request_id), ToolPayload(result))
         ELSE WithError(Envelope(request_id), SERVER_ERROR, Str(result.output))
    ELSE WithResult(Envelope(request_id), ToolPayload(result))

(* Lines 382-405: what becomes of a tool result. *)
WrapperToolOutcome(request_id, result, rad) ==
    IF result.error # ABSENT
    THEN IF ~rad
         THEN WithResult(Envelope(request_id), ToolPayload(result))
         ELSE WithError(Envelope(request_id), SERVER_ERROR, result.error)
    ELSE WithResult(Envelope(request_id), ToolPayload(result))

WrapperExecuteTool(request_id, params, rad, proc) ==
    IF ~IsMapping(params)
    THEN Handled(WrapperOuterExcept(AttributeErrorGet), 0, FALSE)
    ELSE LET tool_name == GetOr(params.toolName, "")
             tool_params == params.toolParams
             run == WrapperExecuteRadiusCommand(tool_name, tool_params, rad, proc)
         IN  IF tool_name \in TOOLS
             THEN IF run.raised
                  THEN HandledRun(
                         WithError(Envelope(request_id), SERVER_ERROR,
                                   "Error executing tool: " \o run.exc),
                         run)
                  ELSE HandledRun(WrapperToolOutcome(request_id, run.result, rad), run)
             ELSE Handled(
                    WithError(Envelope(request_id), INVALID_PARAMS,
                              "Unknown tool: " \o Str(tool_name)),
                    0, FALSE)

WrapperMethodNotFound(request_id, method) ==
    Handled(
        WithError(Envelope(request_id), METHOD_NOT_FOUND, "Method not found: " \o method),
        0, FALSE)

WrapperJsonRpc(request, rad, proc) ==
    LET request_id == Get(request.id)
        method == GetOr(request.method, "")
        params == request.params
    IN  CASE method = "initialize" -> WrapperInitialize(request_id, params)
          [] method = "getMetadata" -> WrapperGetMetadata(request_id, rad)
          [] method = "getToolSpec" -> WrapperGetToolSpec(request_id, params, rad)
          [] method = "executeTool" -> WrapperExecuteTool(request_id, params, rad, proc)
          [] OTHER -> WrapperMethodNotFound(request_id, method)

WrapperLegacy(request, rad, proc) ==
    LET message_type == Get(request.messageType)
        tool_name == Get(request.toolName)
        tool_params == request.parameters
        run == WrapperExecuteRadiusCommand(tool_name, tool_params, rad, proc)
    IN  CASE message_type = "registerSSEClient" ->
                Handled(Bare([ NoPayload EXCEPT !.kind = "status", !.status = "registered" ]),
                        0, FALSE)
          [] message_type = "getMeta" ->
                Handled(
                    Bare([ NoPayload EXCEPT !.kind = "legacyMeta", !.title = WrapperTitle,
                            !.tools = MetadataTools(rad) ]),
                    0, FALSE)
          [] message_type = "toolExecution" ->
                IF tool_name \in TOOLS
                THEN IF run.raised
                     THEN HandledRun(WrapperOuterExcept(run.exc), run)
                     ELSE HandledRun(BareToolResult(run.result), run)
                ELSE Handled(BareError("Unknown tool: " \o Str(tool_name)), 0, FALSE)
          [] OTHER ->
                Handled(BareError("Unknown message type: " \o Str(message_type)), 0, FALSE)

WrapperDispatch(request, rad, proc) ==
    IF request.kind # "dict"
    THEN Handled(WrapperOuterExcept(AttributeErrorGet), 0, FALSE)
    ELSE IF request.jsonrpc = "2.0"
    THEN WrapperJsonRpc(request, rad, proc)
    ELSE WrapperLegacy(request, rad, proc)

(***************************************************************************)
(* The requests the environment sends.                                     *)
(***************************************************************************)
Ids == { ABSENT, NULL, "1", "2" }

Methods ==
    { ABSENT, "initialize", "getMetadata", "getToolSpec", "executeTool",
      "notifications/initialized", "tools/list" }

ToolNamesIn == TOOLS \cup { ABSENT, "radius_delete_application" }

EmptyMap == ToolParamsMap(ABSENT, ABSENT, ABSENT, ABSENT)

ToolParamsIn(tool_name) ==
    { NoToolParams, ToolParamsOther("str"), EmptyMap }
    \cup CASE tool_name = "radius_show_application" ->
                { ToolParamsOther("null"), ToolParamsOther("emptylist") }
                \cup { ToolParamsMap(n, ABSENT, ABSENT, a) :
                         n \in { ABSENT, "", "app" }, a \in { ABSENT, "app" } }
                \cup { ToolParamsMap("app", "default", ABSENT, ABSENT) }
           [] tool_name = "radius_deploy_application" ->
                { ToolParamsMap(ABSENT, ABSENT, "app.bicep", ABSENT),
                  ToolParamsMap("app", "default", "app.bicep", "app"),
                  ToolParamsMap("app", ABSENT, "", ABSENT) }
           [] tool_name = "radius_list_applications" ->
                { ToolParamsMap(ABSENT, "default", ABSENT, ABSENT) }
           [] OTHER -> {}

JsonRpcRequests ==
    { JsonRpc(id, m, NoParams) : id \in Ids, m \in Methods }
    \cup { JsonRpc(id, "initialize", ParamsOther("list")) : id \in Ids }
    \cup { JsonRpc("1", m, p) :
             m \in { "initialize", "getMetadata", "getToolSpec", "executeTool" },
             p \in { ParamsOther("null"), ParamsOther("list") } }
    \cup { JsonRpc("1", "initialize", ParamsMap(v, ABSENT, NoToolParams)) :
             v \in { ABSENT, "2024-11-05" } }
    \cup { JsonRpc("1", m, ParamsMap(ABSENT, t, NoToolParams)) :
             m \in { "getToolSpec", "executeTool" }, t \in ToolNamesIn }
    \cup UNION { { JsonRpc("1", "executeTool", ParamsMap(ABSENT, t, tp)) :
                     tp \in ToolParamsIn(t) } : t \in TOOLS }

LegacyRequests ==
    { Legacy(mt, ABSENT, NoToolParams) :
        mt \in { ABSENT, "getMeta", "registerSSEClient", "toolExecution", "subscribe" } }
    \cup { Legacy("toolExecution", t, NoToolParams) : t \in ToolNamesIn }
    \cup { Legacy("toolExecution", "radius_show_application", tp) :
             tp \in { ToolParamsOther("str"), EmptyMap,
                      ToolParamsMap("app", ABSENT, ABSENT, ABSENT),
                      ToolParamsMap(ABSENT, ABSENT, ABSENT, "app") } }
    \cup { Request("1.0", "2", "initialize", NoParams, ABSENT, ABSENT, NoToolParams),
           Request(ABSENT, "2", ABSENT, NoParams, "getMeta", ABSENT, NoToolParams) }

Requests == JsonRpcRequests \cup LegacyRequests \cup { NonDictRequest }

NoRequest == [ NonDictRequest EXCEPT !.kind = "none" ]

(* One line of standard input / one POST body. *)
Lines ==
    { [ kind |-> "blank", value |-> NoRequest ],
      [ kind |-> "malformed", value |-> NoRequest ] }
    \cup { [ kind |-> "json", value |-> r ] : r \in Requests }

Bodies == { l \in Lines : l.kind # "blank" }

Paths == { "/mcp", "/mcp2", "/" }

(***************************************************************************)
(* State.                                                                  *)
(*   program        which server this process runs: "stdio"                *)
(*                  (stdio_mcp_server.py) or "wrapper"                     *)
(*                  (claude_mcp_wrapper.py)                                *)
(*   RAD_AVAILABLE  the module-level flag, fixed at start-up               *)
(*   main_pc        stdio main(): "loop", then "return0" or "return1"      *)
(*   request_data   main()'s local of that name, reduced to what the       *)
(*                  exception handlers read: whether it is bound, whether  *)
(*                  it is a dict, and its "jsonrpc" and "id" entries       *)
(*   exchange       the line (stdio) or POST (wrapper) being handled, with *)
(*                  what the dispatcher returned and what was written      *)
(*   stdin_log      history of sys.stdin: the class of every line the loop *)
(*                  has read, in order (kept by SpecStdin only)            *)
(*   stdout_log     history of sys.stdout: for every line printed, the     *)
(*                  position in stdin_log of the line being handled        *)
(*   sse_queues     main.py's module-level dict: client id -> the queue    *)
(*                  registered for it (a queue is named by the worker that *)
(*                  created it)                                            *)
(*   sse_queue_lock main.py's module-level lock: its holder, or "free"     *)
(*   queues         the contents of every queue.Queue() created so far     *)
(*   get            main.py: one record per GET worker running             *)
(*                  generate_sse_events (position, client_id, frames       *)
(*                  yielded so far, expiries of the queue wait)            *)
(*   post           main.py: one record per POST worker running            *)
(*                  handle_mcp_request                                     *)
(*   nposts         main.py: number of POST requests accepted so far       *)
(*   wrapper_get    claude_mcp_wrapper.py: one record per handler thread   *)
(*                  running do_GET (position, client_id, frames written,   *)
(*                  sleeps of 15 seconds done)                             *)
(***************************************************************************)
VARIABLES program, RAD_AVAILABLE, main_pc, request_data, exchange,
          stdin_log, stdout_log,
          sse_queues, sse_queue_lock, queues, get, post, nposts,
          wrapper_get

log_vars == << stdin_log, stdout_log >>

hub_vars == << sse_queues, sse_queue_lock, queues, get, post, nposts >>

vars == << program, RAD_AVAILABLE, main_pc, request_data, exchange, log_vars,
           hub_vars, wrapper_get >>

Programs == { "stdio", "wrapper" }

Unbound == [ kind |-> "unbound", jsonrpc |-> ABSENT, id |-> ABSENT ]

(* request_data = json.loads(line) *)
Loaded(value) == [ kind |-> value.kind, jsonrpc |-> value.jsonrpc, id |-> value.id ]

Exchange(server, line, path, handled, h, written, status) ==
    [ server |-> server, line |-> line, path |-> path, handled |-> handled,
      response |-> h.response, written |-> written, calls |-> h.calls,
      spawned |-> h.spawned, run |-> h.run, status |-> status ]

(* No call of the dispatcher: the line or body never reached it. *)
NotHandled == Handled(NoResponse, 0, FALSE)

NoExchange ==
    Exchange("none", [ kind |-> "none", value |-> NoRequest ], "", FALSE,
             NotHandled, << >>, 0)

(***************************************************************************)
(* main.py: the shared session map and the workers of the threaded Flask   *)
(* server (app.run(threaded=True): one thread per request).                *)
(***************************************************************************)
MaxExpiries == 1
MaxPosts == 2

GetWorkers == { "g1", "g2" }
PostWorkers == { "p1" }

(* f"flask-client-{id(request)}": `request` is the module-level proxy      *)
(* imported from flask, one object for the life of the process, so its     *)
(* id() is the same number in every request.                               *)
DefaultClientId == "flask-client-0"

(* request.args.get('client_id', ...) : what the query string carries. *)
ClientIdArgs == { ABSENT, "a" }

ClientIds == { "a", DefaultClientId }

FREE == "free"
NoQueue == "<no queue>"

(* A message on a queue: what mcp.handle_message returned for the n-th     *)
(* POST request.                                                           *)
Message(kind, n) == [ kind |-> kind, n |-> n ]

NoMessage == Message("absent", 0)

(* An SSE frame yielded by generate_sse_events; `delivered` records whether *)
(* the client's socket still took it.                                      *)
Frame(event, clientId, message, delivered) ==
    [ event |-> event, clientId |-> clientId, message |-> message,
      delivered |-> delivered ]

IdleGet ==
    [ pc |-> "idle", client_id |-> ABSENT, frames |-> << >>, expiries |-> 0 ]

(* The body of a POST, as request.get_json(silent=True) and the handler    *)
(* see it: no JSON, the empty object, a list, or an object with or without *)
(* messageType "registerSSEClient", clientId and a true "streaming".       *)
HubBody(kind, messageType, clientId, streaming) ==
    [ kind |-> kind, messageType |-> messageType, clientId |-> clientId,
      streaming |-> streaming ]

HubBodies ==
    { HubBody("malformed", ABSENT, ABSENT, ABSENT),
      HubBody("emptydict", ABSENT, ABSENT, ABSENT),
      HubBody("list", ABSENT, ABSENT, ABSENT) }
    \cup { HubBody("dict", mt, cid, st) :
             mt \in { "registerSSEClient", ABSENT },
             cid \in { ABSENT, "a" },
             st \in { ABSENT, "true" } }

NoBody == HubBody("none", ABSENT, ABSENT, ABSENT)

(* What the HTTP client receives: status and the kind of JSON body. *)
HttpResponse(status, body) == [ status |-> status, body |-> body ]

NoHttpResponse == HttpResponse(0, "none")

IdlePost ==
    [ pc |-> "idle", request_data |-> NoBody, response_data |-> NoMessage,
      http |-> NoHttpResponse ]

(* claude_mcp_wrapper.py: the handler threads of ThreadedHTTPServer that   *)
(* serve GET requests.                                                     *)
WrapperThreads == { "t1", "t2", "t3" }

IdleWrapperGet ==
    [ pc |-> "idle", client_id |-> ABSENT, frames |-> << >>, sleeps |-> 0, status |-> 0 ]

HubInit ==
    /\ sse_queues = [ id \in ClientIds |-> NoQueue ]
    /\ sse_queue_lock = FREE
    /\ queues = [ w \in GetWorkers \cup PostWorkers |-> << >> ]
    /\ get = [ g \in GetWorkers |-> IdleGet ]
    /\ post = [ p \in PostWorkers |-> IdlePost ]
    /\ nposts = 0

Init ==
    /\ program \in Programs
    /\ RAD_AVAILABLE \in BOOLEAN
    /\ main_pc = IF program = "stdio" THEN "loop" ELSE "none"
    /\ request_data = Unbound
    /\ exchange = NoExchange
    /\ stdin_log = << >>
    /\ stdout_log = << >>
    /\ HubInit
    /\ wrapper_get = [ t \in WrapperThreads |-> IdleWrapperGet ]

(* The external process outcomes a dispatch can meet: one of ProcOutcomes  *)
(* when the dispatch starts the process, none otherwise.                   *)
ProcsFor(probe) == IF probe.spawned THEN ProcOutcomes ELSE { NoProc }

(***************************************************************************)
(* stdio main(): one iteration of `for line in sys.stdin`.                 *)
(***************************************************************************)
(* Lines 404-417: the response to a line json.loads rejected. *)
StdioParseError(rd) ==
    LET error_msg == "Invalid JSON in request: Expecting value"
    IN  IF rd.kind = "dict" /\ rd.id # ABSENT /\ rd.jsonrpc # ABSENT
        THEN [ NoResponse EXCEPT !.kind = "jsonrpc", !.jsonrpc = rd.jsonrpc,
                 !.id = rd.id, !.error = ErrorObject(PARSE_ERROR, error_msg) ]
        ELSE BareError(error_msg)

(* if response is not None: print(json.dumps(response)) *)
StdioWrite(response) == IF response.kind = "none" THEN << >> ELSE << response >>

(* if not line: continue *)
BlankLine(line) ==
    /\ line.kind = "blank"
    /\ exchange' = Exchange("stdio", line, "", FALSE, NotHandled, << >>, 0)
    /\ UNCHANGED << program, RAD_AVAILABLE, main_pc, request_data >>

(* json.loads raises JSONDecodeError.  The handler reads request_data: when *)
(* no earlier line was decoded the name is unbound, the handler raises      *)
(* UnboundLocalError, and main()'s outer `except Exception` returns 1.      *)
MalformedLine(line) ==
    /\ line.kind = "malformed"
    /\ IF request_data.kind = "unbound"
       THEN /\ main_pc' = "return1"
            /\ exchange' = Exchange("stdio", line, "", FALSE, NotHandled, << >>, 0)
       ELSE /\ main_pc' = main_pc
            /\ exchange' = Exchange("stdio", line, "", FALSE, NotHandled,
                                    << StdioParseError(request_data) >>, 0)
    /\ UNCHANGED << program, RAD_AVAILABLE, request_data >>

RequestLine(line) ==
    /\ line.kind = "json"
    /\ \E proc \in ProcsFor(StdioHandleRequest(line.value, RAD_AVAILABLE, NoProc)) :
         LET h == StdioHandleRequest(line.value, RAD_AVAILABLE, proc)
         IN  exchange' = Exchange("stdio", line, "", TRUE, h, StdioWrite(h.response), 0)
    /\ request_data' = Loaded(line.value)
    /\ UNCHANGED << program, RAD_AVAILABLE, main_pc >>

ReadLine ==
    /\ program = "stdio"
    /\ main_pc = "loop"
    /\ \E line \in Lines : BlankLine(line) \/ MalformedLine(line) \/ RequestLine(line)
    /\ UNCHANGED << log_vars, hub_vars, wrapper_get >>

(* sys.stdin is exhausted: the loop ends and main() returns 0. *)
EndOfInput ==
    /\ program = "stdio"
    /\ main_pc = "loop"
    /\ main_pc' = "return0"
    /\ UNCHANGED << program, RAD_AVAILABLE, request_data, exchange, log_vars, hub_vars, wrapper_get >>

(* except KeyboardInterrupt: main() returns 0. *)
Interrupt ==
    /\ program = "stdio"
    /\ main_pc = "loop"
    /\ main_pc' = "return0"
    /\ UNCHANGED << program, RAD_AVAILABLE, request_data, exchange, log_vars, hub_vars, wrapper_get >>

(***************************************************************************)
(* claude_mcp_wrapper do_POST: one request, handled by one thread that     *)
(* shares nothing with the other handler threads.                          *)
(***************************************************************************)
(* self.path.startswith('/mcp') or self.path.startswith('/mcp2') *)
PathMatches(path) == path \in { "/mcp", "/mcp2" }

NotFoundBody == [ NoResponse EXCEPT !.kind = "text" ]

DoPost ==
    /\ program = "wrapper"
    /\ exchange.server = "none"
    /\ \E path \in Paths, body \in Bodies :
         IF ~PathMatches(path)
         THEN exchange' = Exchange("wrapper", body, path, FALSE, NotHandled,
                                   << NotFoundBody >>, 404)
         ELSE IF body.kind = "malformed"
         THEN exchange' = Exchange("wrapper", body, path, FALSE, NotHandled,
                << BareError("Invalid JSON in request body: Expecting value") >>, 200)
         ELSE \E proc \in ProcsFor(WrapperDispatch(body.value, RAD_AVAILABLE, NoProc)) :
                LET h == WrapperDispatch(body.value, RAD_AVAILABLE, proc)
                IN  exchange' = Exchange("wrapper", body, path, TRUE, h, << h.response >>, 200)
    /\ UNCHANGED << program, RAD_AVAILABLE, main_pc, request_data, log_vars, hub_vars, wrapper_get >>

(* do_POST returns: the handler's locals are gone, the server waits for the *)
(* next request.                                                            *)
PostDone ==
    /\ program = "wrapper"
    /\ exchange.server = "wrapper"
    /\ exchange' = NoExchange
    /\ UNCHANGED << program, RAD_AVAILABLE, main_pc, request_data, log_vars, hub_vars, wrapper_get >>

Next == ReadLine \/ EndOfInput \/ Interrupt \/ DoPost \/ PostDone

Spec == Init /\ [][Next]_vars

(***************************************************************************)
(* Properties.                                                             *)
(***************************************************************************)
Req == exchange.line.value

(* The dispatcher of either server handled a decoded JSON-RPC 2.0 object. *)
JsonRpcHandled ==
    /\ exchange.handled
    /\ Req.kind = "dict"
    /\ Req.jsonrpc = "2.0"

StdioJsonRpcHandled == JsonRpcHandled /\ exchange.server = "stdio"

ReqMethod == GetOr(Req.method, "")

(* id missing (or null) and method in the notifications/ namespace *)
IsNotificationRequest == Get(Req.id) = NULL /\ StartsWithNotifications(ReqMethod)

KnownMethods == { "initialize", "getMetadata", "getToolSpec", "executeTool" }

IsErrorWithCode(response, code) ==
    /\ response.kind = "jsonrpc"
    /\ response.error.kind = "object"
    /\ response.error.code = code
    /\ ~HasResult(response)

(* C1: in the stdio server a JSON-RPC 2.0 request without id whose method   *)
(* starts with "notifications/" gets no response from handle_request and    *)
(* nothing is written to standard output for its line, whatever lines came  *)
(* before.                                                                  *)
C1_NotificationSilent ==
    ( /\ StdioJsonRpcHandled
      /\ Req.id = ABSENT
      /\ StartsWithNotifications(ReqMethod) )
    => /\ exchange.response = NoResponse
       /\ exchange.written = << >>
       /\ main_pc # "return1"

C1_Witness ==
    /\ StdioJsonRpcHandled
    /\ Req.id = ABSENT
    /\ ReqMethod = "notifications/initialized"
    /\ exchange.written = << >>

(* C2: every JSON-RPC 2.0 request that is no notification, whatever its     *)
(* method and the type of its params, is answered by the stdio dispatcher   *)
(* with jsonrpc "2.0" and the request's id (null when absent).              *)
C2_IdEchoed ==
    ( StdioJsonRpcHandled /\ ~IsNotificationRequest )
    => /\ exchange.response.kind = "jsonrpc"
       /\ exchange.response.jsonrpc = "2.0"
       /\ exchange.response.id = Get(Req.id)

(* C3: a line that is not valid JSON, at any position, makes the stdio loop *)
(* write one parse-error response and go on reading; the loop is never left *)
(* because of it.                                                           *)
IsParseErrorResponse(response) ==
    \/ response.kind = "jsonrpc" /\ response.error.kind = "object"
         /\ response.error.code = PARSE_ERROR
    \/ response.kind = "bare" /\ response.error.kind = "string"

C3_MalformedLineAnswered ==
    ( exchange.server = "stdio" /\ exchange.line.kind = "malformed" )
    => /\ Len(exchange.written) = 1
       /\ IsParseErrorResponse(exchange.written[1])
       /\ main_pc # "return1"

NamesUnknownTool ==
    /\ JsonRpcHandled
    /\ ReqMethod \in { "getToolSpec", "executeTool" }
    /\ IsMapping(Req.params)
    /\ GetOr(Req.params.toolName, "") \notin TOOLS

ToolReturned ==
    /\ JsonRpcHandled
    /\ ReqMethod = "executeTool"
    /\ exchange.calls = 1
    /\ ~exchange.run.raised

C6_ToolResultMapped ==
    ( ToolReturned /\ RAD_AVAILABLE )
    => IF exchange.run.result.error # ABSENT
       THEN /\ IsErrorWithCode(exchange.response, SERVER_ERROR)
            /\ exchange.response.error.message = exchange.run.result.error
       ELSE /\ exchange.response.kind = "jsonrpc"
            /\ ~HasError(exchange.response)
            /\ exchange.response.result.kind = "toolResult"
            /\ exchange.response.result.output = exchange.run.result.output
            /\ exchange.response.result.data = exchange.run.result.data
            /\ exchange.response.result.error = ABSENT

C6_Witness ==
    /\ ToolReturned
    /\ RAD_AVAILABLE
    /\ exchange.spawned
    /\ exchange.run.result.error # ABSENT
    /\ IsErrorWithCode(exchange.response, SERVER_ERROR)

(* C7: with rad unavailable, every executeTool naming a registered tool,    *)
(* with any toolParams, is answered with a successful result that has both  *)
(* an output and an error field, never with an error envelope, and the      *)
(* server does not abort.                                                   *)
NamesRegisteredTool ==
    /\ JsonRpcHandled
    /\ ReqMethod = "executeTool"
    /\ IsMapping(Req.params)
    /\ GetOr(Req.params.toolName, "") \in TOOLS

C7_DegradedIsResult ==
    ( NamesRegisteredTool /\ ~RAD_AVAILABLE )
    => /\ exchange.response.kind = "jsonrpc"
       /\ ~HasError(exchange.response)
       /\ exchange.response.result.kind = "toolResult"
       /\ exchange.response.result.output # ABSENT
       /\ exchange.response.result.error # ABSENT
       /\ exchange.written = << exchange.response >>
       /\ main_pc # "return1"

C7_Witness ==
    /\ NamesRegisteredTool
    /\ ~RAD_AVAILABLE
    /\ Req.params.toolParams.kind = "str"
    /\ exchange.response.result.error = UnavailableError

(* C8, as stated: an executeTool for radius_show_application whose          *)
(* toolParams has no name is answered by the stdio server, in every         *)
(* capability state, with a JSON-RPC error of code -32000 or -32602 whose   *)
(* message contains "required".                                             *)
LacksName(tool_params) ==
    OrEmpty(tool_params).kind = "map" /\ OrEmpty(tool_params).name = ABSENT

ShowWithoutName ==
    /\ StdioJsonRpcHandled
    /\ ReqMethod = "executeTool"
    /\ IsMapping(Req.params)
    /\ Req.params.toolName = "radius_show_application"
    /\ LacksName(Req.params.toolParams)

IsRequiredError(response) ==
    /\ response.kind = "jsonrpc"
    /\ response.error.kind = "object"
    /\ response.error.code \in { SERVER_ERROR, INVALID_PARAMS }
    /\ ContainsRequired(response.error.message)
    /\ ~HasResult(response)

ExactlyOneOfResultAndError(response) == HasResult(response) # HasError(response)

C9_ResultXorError ==
    /\ \A i \in 1..Len(exchange.written) :
         exchange.written[i].kind = "jsonrpc"
            => ExactlyOneOfResultAndError(exchange.written[i])
    /\ ( JsonRpcHandled /\ exchange.response # NoResponse )
         => ExactlyOneOfResultAndError(exchange.response)

C9_Witness ==
    /\ JsonRpcHandled
    /\ ReqMethod = "executeTool"
    /\ exchange.calls = 1
    /\ RAD_AVAILABLE
    /\ exchange.run.result.error # ABSENT
    /\ HasError(exchange.response)
    /\ ~HasResult(exchange.response)

(* C10: after a getMetadata response, a getToolSpec request for any name    *)
(* in its tools array is answered with a result whose name is the queried   *)
(* name.                                                                    *)
MetadataNames(payload) == { payload.tools[i].name : i \in DOMAIN payload.tools }

GetMetadataAnswered ==
    /\ StdioJsonRpcHandled
    /\ ReqMethod = "getMetadata"
    /\ exchange.response.result.kind = "metadata"

GetToolSpecAsked ==
    /\ StdioJsonRpcHandled
    /\ ReqMethod = "getToolSpec"
    /\ IsMapping(Req.params)

GetToolSpecSucceeded ==
    /\ exchange.response.kind = "jsonrpc"
    /\ ~HasError(exchange.response)
    /\ exchange.response.result.kind = "toolSpec"
    /\ exchange.response.result.name = Req.params.toolName
    /\ exchange.written = << exchange.response >>

C10_RoundTrip ==
    [][ ( /\ GetMetadataAnswered
          /\ GetToolSpecAsked'
          /\ Req'.params.toolName \in MetadataNames(exchange.response.result) )
        => GetToolSpecSucceeded' ]_vars

C10_Witness ==
    /\ GetToolSpecAsked
    /\ Req.params.toolName = "radius_deploy_application"
    /\ request_data.id = "1"
    /\ GetToolSpecSucceeded

(***************************************************************************)
(* SpecStdin: the stdio loop with the history of standard input and        *)
(* standard output kept, over a few lines of each class.                   *)
(***************************************************************************)
MaxLines == 3

(* The lines the ordering is checked over: blank, malformed, notifications *)
(* (id absent, id null), requests with and without id, a legacy message    *)
(* and a JSON value that is no object.                                     *)
OrderLines ==
    { l \in Lines :
        \/ l.kind \in { "blank", "malformed" }
        \/ /\ l.kind = "json"
           /\ \/ l.value = NonDictRequest
              \/ l.value = Legacy("getMeta", ABSENT, NoToolParams)
              \/ /\ l.value.kind = "dict"
                 /\ l.value.jsonrpc = "2.0"
                 /\ l.value.params = NoParams
                 /\ l.value.method \in { "notifications/initialized", "getMetadata" }
                 /\ l.value.id \in { ABSENT, NULL, "1" } }

(* The class of a line as the protocol defines it: a notification is a     *)
(* JSON-RPC 2.0 request whose id member is missing and whose method is in  *)
(* the notifications/ namespace.                                           *)
LineClass(line) ==
    IF line.kind # "json" THEN line.kind
    ELSE IF /\ line.value.kind = "dict"
            /\ line.value.jsonrpc = "2.0"
            /\ line.value.id = ABSENT
            /\ StartsWithNotifications(GetOr(line.value.method, ""))
    THEN "notification"
    ELSE "request"

(* One iteration of `for line in sys.stdin` (lines 385-432): the line is   *)
(* read, handled, and its response printed and flushed before the loop     *)
(* asks sys.stdin for the next line.                                       *)
ReadLogged ==
    /\ program = "stdio"
    /\ main_pc = "loop"
    /\ Len(stdin_log) < MaxLines
    /\ \E line \in OrderLines :
         /\ BlankLine(line) \/ MalformedLine(line) \/ RequestLine(line)
         /\ stdin_log' = Append(stdin_log, LineClass(line))
         /\ stdout_log' = stdout_log \o
                [ i \in 1 .. Len(exchange'.written) |-> Len(stdin_log) + 1 ]
    /\ UNCHANGED << hub_vars, wrapper_get >>

InitStdin == Init /\ program = "stdio"

NextStdin == ReadLogged \/ EndOfInput \/ Interrupt

SpecStdin == InitStdin /\ [][NextStdin]_vars

(* The positions in the input of the lines that call for an answer: the    *)
(* non-blank lines that are no notification.                               *)
RECURSIVE Answerable(_, _)
Answerable(log, n) ==
    IF n = 0 THEN << >>
    ELSE IF log[n] \in { "blank", "notification" }
         THEN Answerable(log, n - 1)
         ELSE Append(Answerable(log, n - 1), n)

(* C11: the stdio loop handles lines one at a time: every output line is   *)
(* written while its input line is the last one read, no input line has    *)
(* two output lines, and the k-th output line answers the k-th input line  *)
(* that is neither blank nor a notification.                               *)
C11_ResponsesInOrder ==
    program = "stdio" =>
      LET expected == Answerable(stdin_log, Len(stdin_log))
      IN  /\ Len(stdout_log) <= Len(expected)
          /\ \A k \in 1 .. Len(stdout_log) : stdout_log[k] = expected[k]

(* What the loop does guarantee: output lines are written in the order of  *)
(* their input lines, at most one per line, each before the next read.     *)
C11_Sequential ==
    /\ \A k \in 1 .. Len(stdout_log) : stdout_log[k] <= Len(stdin_log)
    /\ \A j, k \in 1 .. Len(stdout_log) : j < k => stdout_log[j] < stdout_log[k]
    /\ \A k \in 1 .. Len(stdout_log) :
         stdin_log[stdout_log[k]] \in { "request", "malformed" }

(***************************************************************************)
(* SpecHub: main.py, the Flask server.  GET workers run                    *)
(* generate_sse_events, POST workers run the POST branch of                *)
(* handle_mcp_request; their steps interleave at every lock operation,     *)
(* yield and blocking call.                                                *)
(***************************************************************************)
other_vars ==
    << program, RAD_AVAILABLE, main_pc, request_data, exchange, log_vars, wrapper_get >>

Registered(client_id) == sse_queues[client_id] # NoQueue

(* Lines 246-250: client_id from the query string or the default, and a    *)
(* new queue.Queue() for this stream.                                      *)
GetOpen(g) ==
    /\ program = "main"
    /\ get[g].pc = "idle"
    /\ \E arg \in ClientIdArgs :
         get' = [ get EXCEPT ![g].pc = "lock_reg",
                             ![g].client_id = IF arg = ABSENT THEN DefaultClientId
                                              ELSE arg ]
    /\ queues' = [ queues EXCEPT ![g] = << >> ]
    /\ UNCHANGED << sse_queues, sse_queue_lock, post, nposts,
                    other_vars >>

(* Variant of GetAcquire that does not wait for the lock to be free. *)
GetAcquire_NoWait(g) ==
    /\ get[g].pc \in { "lock_reg", "lock_fin" }
    /\ sse_queue_lock' = g
    /\ get' = [ get EXCEPT ![g].pc = IF get[g].pc = "lock_reg" THEN "reg" ELSE "fin" ]
    /\ UNCHANGED << sse_queues, queues, post, nposts,
                    other_vars >>

(* `with sse_queue_lock:` entered, at line 253 or at line 288. *)
GetAcquire(g) ==
    /\ get[g].pc \in { "lock_reg", "lock_fin" }
    /\ sse_queue_lock = FREE
    /\ sse_queue_lock' = g
    /\ get' = [ get EXCEPT ![g].pc = IF get[g].pc = "lock_reg" THEN "reg" ELSE "fin" ]
    /\ UNCHANGED << sse_queues, queues, post, nposts,
                    other_vars >>

(* Variant of GetRegister that goes on to the first yield with the lock    *)
(* still held.                                                             *)
GetRegister_KeepsLock(g) ==
    /\ get[g].pc = "reg"
    /\ sse_queue_lock = g
    /\ sse_queues' = [ sse_queues EXCEPT ![get[g].client_id] = g ]
    /\ get' = [ get EXCEPT ![g].pc = "connect" ]
    /\ UNCHANGED << sse_queue_lock, queues, post, nposts,
                    other_vars >>

(* Line 254: sse_queues[client_id] = message_queue, then the lock is       *)
(* released.                                                               *)
GetRegister(g) ==
    /\ get[g].pc = "reg"
    /\ sse_queue_lock = g
    /\ sse_queues' = [ sse_queues EXCEPT ![get[g].client_id] = g ]
    /\ sse_queue_lock' = FREE
    /\ get' = [ get EXCEPT ![g].pc = "connect" ]
    /\ UNCHANGED << queues, post, nposts,
                    other_vars >>

(* A yield of generate_sse_events: the frame goes to the client; when the  *)
(* client has gone the server closes the generator at this yield           *)
(* (GeneratorExit), which runs the finally clause.                         *)
Yield(g, event, message, next_pc, expired) ==
    \E delivered \in BOOLEAN :
      get' = [ get EXCEPT
                 ![g].frames = Append(@, Frame(event, get[g].client_id, message,
                                               delivered)),
                 ![g].expiries = @ + expired,
                 ![g].pc = IF delivered THEN next_pc ELSE "lock_fin" ]

(* Line 258: the initial connection event. *)
GetConnection(g) ==
    /\ get[g].pc = "connect"
    /\ Yield(g, "connection", NoMessage, "wait", 0)
    /\ UNCHANGED << sse_queues, sse_queue_lock, queues, post, nposts,
                    other_vars >>

(* Variant of GetMessage that takes None off the queue and goes on with    *)
(* the loop.                                                               *)
GetMessage_SentinelIgnored(g) ==
    /\ get[g].pc = "wait"
    /\ queues[g] # << >>
    /\ LET message == Head(queues[g])
       IN  CASE message.kind = "none" ->
                  get' = get
             [] message.kind = "dict" ->
                  Yield(g, "data", message, "wait", 0)
             [] OTHER ->
                  Yield(g, "error", message, "lock_fin", 0)
    /\ queues' = [ queues EXCEPT ![g] = Tail(@) ]
    /\ UNCHANGED << sse_queues, sse_queue_lock, post, nposts,
                    other_vars >>

(* Lines 264-275: message_queue.get returns a message.  None ends the      *)
(* stream; a dict is serialised and yielded as a data event; a value that  *)
(* cannot be sliced raises TypeError at line 274, which the handler at     *)
(* lines 281-284 turns into an error event before the stream ends.         *)
GetMessage(g) ==
    /\ get[g].pc = "wait"
    /\ queues[g] # << >>
    /\ LET message == Head(queues[g])
       IN  CASE message.kind = "none" ->
                  get' = [ get EXCEPT ![g].pc = "lock_fin" ]
             [] message.kind = "dict" ->
                  Yield(g, "data", message, "wait", 0)
             [] OTHER ->
                  Yield(g, "error", message, "lock_fin", 0)
    /\ queues' = [ queues EXCEPT ![g] = Tail(@) ]
    /\ UNCHANGED << sse_queues, sse_queue_lock, post, nposts,
                    other_vars >>

(* Variant of GetTimeout that goes back to waiting without a frame. *)
GetTimeout_Silent(g) ==
    /\ get[g].pc = "wait"
    /\ queues[g] = << >>
    /\ get[g].expiries < MaxExpiries
    /\ get' = [ get EXCEPT ![g].expiries = @ + 1 ]
    /\ UNCHANGED << sse_queues, sse_queue_lock, queues, post, nposts,
                    other_vars >>

(* Lines 277-279: the wait of 30 seconds expires with the queue empty      *)
(* (queue.Empty) and the keep-alive comment is yielded.                    *)
GetTimeout(g) ==
    /\ get[g].pc = "wait"
    /\ queues[g] = << >>
    /\ get[g].expiries < MaxExpiries
    /\ Yield(g, "comment", NoMessage, "wait", 1)
    /\ UNCHANGED << sse_queues, sse_queue_lock, queues, post, nposts,
                    other_vars >>

(* Lines 286-290: the finally clause deletes whatever entry the client id  *)
(* has and releases the lock; the generator is finished.                   *)
GetUnregister(g) ==
    /\ get[g].pc = "fin"
    /\ sse_queue_lock = g
    /\ sse_queues' = [ sse_queues EXCEPT ![get[g].client_id] = NoQueue ]
    /\ sse_queue_lock' = FREE
    /\ get' = [ get EXCEPT ![g].pc = "closed" ]
    /\ UNCHANGED << queues, post, nposts,
                    other_vars >>

(* What mcp.handle_message, a call into the FastMCP library, can do: return *)
(* a response object, return None, return a value that is no object, or    *)
(* raise.                                                                  *)
HandleOutcomes == { "dict", "none", "number", "raise" }

(* Lines 307, 350 and Flask's own answer to an exception that leaves the   *)
(* view function (or to a return value it cannot turn into a response).    *)
BadRequest == HttpResponse(400, "error")
InternalError == HttpResponse(500, "error")
FlaskInternalError == HttpResponse(500, "html")

(* Line 345: return response_data, 200, response_headers. *)
ReturnResponseData(response_data) ==
    IF response_data.kind = "dict" THEN HttpResponse(200, "result")
    ELSE FlaskInternalError

Finished(p, http) == [ post EXCEPT ![p].pc = "done", ![p].http = http ]

(* Lines 303-325: the body is decoded; a body that is no JSON, or JSON     *)
(* that is falsy, is refused; request_data.get on a value that is no       *)
(* object raises AttributeError outside the try block; a registration goes *)
(* for the lock, anything else goes to mcp.handle_message.                 *)
PostBegin(p) ==
    /\ program = "main"
    /\ post[p].pc = "idle"
    /\ nposts < MaxPosts
    /\ nposts' = nposts + 1
    /\ \E body \in HubBodies :
         post' =
           IF body.kind \in { "malformed", "emptydict" }
           THEN [ Finished(p, BadRequest) EXCEPT ![p].request_data = body ]
           ELSE IF body.kind = "list"
           THEN [ Finished(p, FlaskInternalError) EXCEPT ![p].request_data = body ]
           ELSE IF body.messageType = "registerSSEClient" /\ body.clientId # ABSENT
           THEN [ post EXCEPT ![p].pc = "lock_reg", ![p].request_data = body ]
           ELSE [ post EXCEPT ![p].pc = "handle", ![p].request_data = body ]
    /\ UNCHANGED << sse_queues, sse_queue_lock, queues, get,
                    other_vars >>

(* Line 334 *)
WantsStreaming(body) == body.clientId # ABSENT /\ body.streaming = "true"

(* Lines 328-350 up to the lock: mcp.handle_message runs (this is where a  *)
(* tool executes); an exception is answered 500.                           *)
PostHandle(p) ==
    /\ post[p].pc = "handle"
    /\ \E outcome \in HandleOutcomes :
         LET response_data == Message(outcome, nposts)
         IN  post' =
               IF outcome = "raise" THEN Finished(p, InternalError)
               ELSE IF WantsStreaming(post[p].request_data)
               THEN [ post EXCEPT ![p].pc = "lock_push",
                                  ![p].response_data = response_data ]
               ELSE [ Finished(p, ReturnResponseData(response_data))
                        EXCEPT ![p].response_data = response_data ]
    /\ UNCHANGED << sse_queues, sse_queue_lock, queues, get, nposts,
                    other_vars >>

(* `with sse_queue_lock:` entered, at line 321 or at line 336. *)
PostAcquire(p) ==
    /\ post[p].pc \in { "lock_reg", "lock_push" }
    /\ sse_queue_lock = FREE
    /\ sse_queue_lock' = p
    /\ post' = [ post EXCEPT ![p].pc = IF post[p].pc = "lock_reg" THEN "reg" ELSE "push" ]
    /\ UNCHANGED << sse_queues, queues, get, nposts,
                    other_vars >>

(* Lines 322-325: a queue is created only when the id has none. *)
PostRegister(p) ==
    /\ post[p].pc = "reg"
    /\ sse_queue_lock = p
    /\ LET client_id == post[p].request_data.clientId
       IN  IF Registered(client_id)
           THEN UNCHANGED << sse_queues, queues >>
           ELSE /\ sse_queues' = [ sse_queues EXCEPT ![client_id] = p ]
                /\ queues' = [ queues EXCEPT ![p] = << >> ]
    /\ sse_queue_lock' = FREE
    /\ post' = Finished(p, HttpResponse(200, "registered"))
    /\ UNCHANGED << get, nposts,
                    other_vars >>

(* Variant of PostPush that answers with the response even when it has put *)
(* it on the queue.                                                        *)
PostPush_BothChannels(p) ==
    /\ post[p].pc = "push"
    /\ sse_queue_lock = p
    /\ LET client_id == post[p].request_data.clientId
       IN  queues' = IF Registered(client_id)
                     THEN [ queues EXCEPT ![sse_queues[client_id]] =
                              Append(@, post[p].response_data) ]
                     ELSE queues
    /\ post' = Finished(p, ReturnResponseData(post[p].response_data))
    /\ sse_queue_lock' = FREE
    /\ UNCHANGED << sse_queues, get, nposts,
                    other_vars >>

(* Lines 337-345: the response is put on the registered queue and only     *)
(* acknowledged over HTTP, or, when the id has no queue, returned over     *)
(* HTTP.                                                                   *)
PostPush(p) ==
    /\ post[p].pc = "push"
    /\ sse_queue_lock = p
    /\ LET client_id == post[p].request_data.clientId
       IN  IF Registered(client_id)
           THEN /\ queues' = [ queues EXCEPT ![sse_queues[client_id]] =
                                 Append(@, post[p].response_data) ]
                /\ post' = Finished(p, HttpResponse(200, "streaming"))
           ELSE /\ queues' = queues
                /\ post' = Finished(p, ReturnResponseData(post[p].response_data))
    /\ sse_queue_lock' = FREE
    /\ UNCHANGED << sse_queues, get, nposts,
                    other_vars >>

(* The response has been sent and the request's connection closed; the     *)
(* worker is free for the next request.                                    *)
PostFinish(p) ==
    /\ post[p].pc = "done"
    /\ post' = [ post EXCEPT ![p] = IdlePost ]
    /\ UNCHANGED << sse_queues, sse_queue_lock, queues, get, nposts,
                    other_vars >>

InitHub ==
    /\ program = "main"
    /\ RAD_AVAILABLE = FALSE
    /\ main_pc = "none"
    /\ request_data = Unbound
    /\ exchange = NoExchange
    /\ stdin_log = << >>
    /\ stdout_log = << >>
    /\ HubInit
    /\ wrapper_get = [ t \in WrapperThreads |-> IdleWrapperGet ]

NextHub ==
    \/ \E g \in GetWorkers :
         \/ GetOpen(g)
         \/ GetAcquire(g)
         \/ GetRegister(g)
         \/ GetConnection(g)
         \/ GetMessage(g)
         \/ GetTimeout(g)
         \/ GetUnregister(g)
    \/ \E p \in PostWorkers :
         \/ PostBegin(p)
         \/ PostHandle(p)
         \/ PostAcquire(p)
         \/ PostRegister(p)
         \/ PostPush(p)
         \/ PostFinish(p)

SpecHub == InitHub /\ [][NextHub]_vars

(***************************************************************************)
(* Properties of the session map (SpecHub).                                *)
(***************************************************************************)
(* The step in which GET worker g / POST worker p registers its client id. *)
GetRegisters(g) == get[g].pc = "reg" /\ get'[g].pc = "connect"

PostRegisters(p) == post[p].pc = "reg" /\ post'[p].pc = "done"

(* The entry of client_id and the contents of its queue are left alone. *)
SessionKept(client_id) ==
    /\ sse_queues'[client_id] = sse_queues[client_id]
    /\ queues'[sse_queues[client_id]] = queues[sse_queues[client_id]]

(* C12: a registration of a client id that already has a session, by the   *)
(* opening of a GET stream or by a POST registerSSEClient, leaves the id    *)
(* with the queue it had, and with the messages already in that queue.      *)
C12_RegisterIdempotent ==
    [][ /\ \A g \in GetWorkers :
             ( GetRegisters(g) /\ Registered(get[g].client_id) )
             => SessionKept(get[g].client_id)
        /\ \A p \in PostWorkers :
             ( PostRegisters(p) /\ Registered(post[p].request_data.clientId) )
             => SessionKept(post[p].request_data.clientId) ]_vars

(* The POST path alone does keep the session. *)
C12_PostRegisterIdempotent ==
    [][ \A p \in PostWorkers :
          ( PostRegisters(p) /\ Registered(post[p].request_data.clientId) )
          => SessionKept(post[p].request_data.clientId) ]_vars

(* The step in which GET worker g leaves its finally clause. *)
GetCloses(g) == get[g].pc = "fin" /\ get'[g].pc = "closed"

(* The stream of g is registered and has not reached its finally clause. *)
StreamOpen(g) == get[g].pc \in { "connect", "wait" }

(* C13: the close of one SSE stream removes no entry but the one that this *)
(* stream created: every entry holding the queue of another stream is the  *)
(* same after the close.                                                   *)
C13_CloseRemovesOwnSession ==
    [][ \A g \in GetWorkers :
          GetCloses(g) =>
            \A client_id \in ClientIds :
              sse_queues[client_id] # g
              => sse_queues'[client_id] = sse_queues[client_id] ]_vars

(***************************************************************************)
(* SpecWrapperGet: claude_mcp_wrapper.py do_GET, one handler thread per    *)
(* connection (ThreadedHTTPServer).  The thread shares no data with any    *)
(* other thread.                                                           *)
(***************************************************************************)
MaxSleeps == 2

(* threading.get_ident(): a number no two live threads share. *)
GetIdent(t) == t

not_wrapper_get ==
    << program, RAD_AVAILABLE, main_pc, request_data, exchange, log_vars, hub_vars >>

(* Lines 218-230: 404 for another path; otherwise status 200, the SSE      *)
(* headers and the connection event.  A write on a socket the client has   *)
(* closed raises and ends the handler.                                     *)
WrapperGetOpen(t) ==
    /\ program = "wrapper"
    /\ wrapper_get[t].pc = "idle"
    /\ \E path \in Paths, delivered \in BOOLEAN :
         wrapper_get' =
           IF ~PathMatches(path)
           THEN [ wrapper_get EXCEPT ![t].pc = "closed", ![t].status = 404 ]
           ELSE LET client_id == "client-" \o GetIdent(t)
                IN  [ wrapper_get EXCEPT
                        ![t].pc = IF delivered THEN "loop" ELSE "closed",
                        ![t].status = 200,
                        ![t].client_id = client_id,
                        ![t].frames = << Frame("connection", client_id, NoMessage,
                                               delivered) >> ]
    /\ UNCHANGED not_wrapper_get

(* Lines 234-240: one turn of the loop: the keep-alive comment is written  *)
(* and flushed, then the thread sleeps 15 seconds; ConnectionError or      *)
(* BrokenPipeError on the write ends the loop.                             *)
WrapperKeepAlive(t) ==
    /\ wrapper_get[t].pc = "loop"
    /\ wrapper_get[t].sleeps < MaxSleeps
    /\ \E delivered \in BOOLEAN :
         wrapper_get' =
           [ wrapper_get EXCEPT
               ![t].frames = Append(@, Frame("comment", wrapper_get[t].client_id,
                                             NoMessage, delivered)),
               ![t].sleeps = IF delivered THEN @ + 1 ELSE @,
               ![t].pc = IF delivered THEN "loop" ELSE "closed" ]
    /\ UNCHANGED not_wrapper_get

(* do_GET has returned and the handler thread has ended: its identifier is *)
(* free for the thread of a later connection.                              *)
WrapperGetExit(t) ==
    /\ wrapper_get[t].pc = "closed"
    /\ wrapper_get' = [ wrapper_get EXCEPT ![t] = IdleWrapperGet ]
    /\ UNCHANGED not_wrapper_get

InitWrapperGet == Init /\ program = "wrapper"

NextWrapperGet ==
    \E t \in WrapperThreads :
      \/ WrapperGetOpen(t)
      \/ WrapperKeepAlive(t)
      \/ WrapperGetExit(t)

SpecWrapperGet == InitWrapperGet /\ [][NextWrapperGet]_vars

(* The connection of GET worker g (main.py) / handler thread t (wrapper)   *)
(* is open: its stream has a client id and has not ended.                  *)
ConnectionOpen(g) == get[g].pc \notin { "idle", "closed" }

WrapperConnectionOpen(t) == wrapper_get[t].pc = "loop"

(* C14: no two SSE GET connections that are open at the same time have the *)
(* same client id, in main.py and in claude_mcp_wrapper.py, whether the id  *)
(* came from the client_id argument or is the server's default.            *)
C14_UniqueClientIds ==
    /\ \A g, h \in GetWorkers :
         ( g # h /\ ConnectionOpen(g) /\ ConnectionOpen(h) )
         => get[g].client_id # get[h].client_id
    /\ \A t, u \in WrapperThreads :
         ( t # u /\ WrapperConnectionOpen(t) /\ WrapperConnectionOpen(u) )
         => wrapper_get[t].client_id # wrapper_get[u].client_id

(* Two streams that passed no client_id are open with the default id. *)
C14_DefaultIdShared ==
    \E g, h \in GetWorkers :
      /\ g # h
      /\ StreamOpen(g)
      /\ StreamOpen(h)
      /\ get[g].client_id = DefaultClientId
      /\ get[h].client_id = DefaultClientId

(* The GET stream of g has ended / the POST request that p served has been *)
(* answered and its connection closed.                                     *)
StreamEnded(g) == get[g].pc = "closed"

RequestEnded(p) == post[p].pc = "idle"

(* C15: no entry of the session map outlives the connection or request     *)
(* that created it: the queue of a GET stream that has ended is not in the *)
(* map, and neither is a queue created by a POST registerSSEClient whose   *)
(* request has ended.                                                      *)
C15_SessionsRemoved ==
    \A client_id \in ClientIds :
      /\ \A g \in GetWorkers : StreamEnded(g) => sse_queues[client_id] # g
      /\ \A p \in PostWorkers : RequestEnded(p) => sse_queues[client_id] # p

(* The GET half: a stream that has ended has left no entry. *)
C15_StreamSessionsRemoved ==
    \A client_id \in ClientIds :
      \A g \in GetWorkers : StreamEnded(g) => sse_queues[client_id] # g

(* The step in which the request served by p gets its HTTP answer. *)
Answers(p) == post[p].pc # "done" /\ post'[p].pc = "done"

(* One channel: the response goes on the queue registered for client_id    *)
(* and the HTTP body is the acknowledgement, or, when the id has no queue, *)
(* no queue and no entry changes and the HTTP body is the response.        *)
OneChannel(p, client_id) ==
    IF Registered(client_id)
    THEN /\ queues' = [ queues EXCEPT ![sse_queues[client_id]] =
                          Append(@, post'[p].response_data) ]
         /\ sse_queues' = sse_queues
         /\ post'[p].http = HttpResponse(200, "streaming")
    ELSE /\ queues' = queues
         /\ sse_queues' = sse_queues
         /\ post'[p].http = HttpResponse(200, "result")

GetInLock(g) == get[g].pc \in { "reg", "fin" }

PostInLock(p) == post[p].pc \in { "reg", "push" }

WantsLock ==
    \/ \E g \in GetWorkers : get[g].pc \in { "lock_reg", "lock_fin" }
    \/ \E p \in PostWorkers : post[p].pc \in { "lock_reg", "lock_push" }

(* The holder of the lock can take its step: the map operation, which ends *)
(* with the release.                                                       *)
HolderCanRelease ==
    \/ \E g \in GetWorkers :
         sse_queue_lock = g /\ ENABLED ( GetRegister(g) \/ GetUnregister(g) )
    \/ \E p \in PostWorkers :
         sse_queue_lock = p /\ ENABLED ( PostRegister(p) \/ PostPush(p) )

(* C17: the lock of the session map is held exactly by a worker that is at *)
(* a map operation (register, unregister, lookup-and-enqueue), never by a  *)
(* worker that waits on its queue, yields a frame or runs                  *)
(* mcp.handle_message; the holder can always release, so a worker that     *)
(* waits for the lock is never stuck behind it.                            *)
C17_LockOnlyAroundMap ==
    /\ \A g \in GetWorkers : sse_queue_lock = g <=> GetInLock(g)
    /\ \A p \in PostWorkers : sse_queue_lock = p <=> PostInLock(p)
    /\ sse_queue_lock # FREE => HolderCanRelease
    /\ WantsLock => ( sse_queue_lock = FREE \/ HolderCanRelease )

C17_Witness ==
    /\ \E p \in PostWorkers : sse_queue_lock = p /\ post[p].pc = "push"
    /\ \E g \in GetWorkers : get[g].pc = "wait" /\ queues[g] = << >>
    /\ \E g \in GetWorkers : get[g].pc = "lock_fin"

(***************************************************************************)
(* SpecSse: the SSE streams of both HTTP servers, main.py and              *)
(* claude_mcp_wrapper.py, each in a process of its own.                    *)
(***************************************************************************)
InitSse == InitHub \/ InitWrapperGet

NextSse == NextHub \/ NextWrapperGet

SpecSse == InitSse /\ [][NextSse]_vars

(* The queue wait of g expires / the handler thread t takes a turn of its  *)
(* keep-alive loop.                                                        *)
Expires(g) == get'[g].expiries = get[g].expiries + 1

WrapperTurn(t) ==
    wrapper_get[t].pc = "loop" /\ wrapper_get'[t].frames # wrapper_get[t].frames

(* frames_after is frames_before and one keep-alive comment. *)
OneKeepAlive(frames_before, frames_after) ==
    /\ Len(frames_after) = Len(frames_before) + 1
    /\ SubSeq(frames_after, 1, Len(frames_before)) = frames_before
    /\ frames_after[Len(frames_after)].event = "comment"

RECURSIVE CountEvents(_, _)
CountEvents(frames, event) ==
    IF frames = << >> THEN 0
    ELSE ( IF Head(frames).event = event THEN 1 ELSE 0 )
         + CountEvents(Tail(frames), event)

(* C18: on an SSE stream every expiry of the queue wait with no message    *)
(* (main.py), and every turn of the keep-alive loop (wrapper), emits       *)
(* exactly one keep-alive comment as the next frame and, when the client   *)
(* is still there, leaves the stream waiting and the session map as it     *)
(* was; a stream has as many keep-alive frames as expiries, so one whose   *)
(* wait expired before any message came has a keep-alive before any data   *)
(* event.                                                                  *)
C18_KeepAliveOnExpiry ==
    [][ /\ \A g \in GetWorkers :
             /\ Expires(g) =>
                  /\ queues[g] = << >>
                  /\ OneKeepAlive(get[g].frames, get'[g].frames)
                  /\ get'[g].frames[Len(get'[g].frames)].delivered
                     => get'[g].pc = "wait"
                  /\ sse_queues' = sse_queues
                  /\ queues' = queues
             /\ CountEvents(get'[g].frames, "comment") = get'[g].expiries
        /\ \A t \in WrapperThreads :
             WrapperTurn(t) =>
               /\ OneKeepAlive(wrapper_get[t].frames, wrapper_get'[t].frames)
               /\ wrapper_get'[t].frames[Len(wrapper_get'[t].frames)].delivered
                  => wrapper_get'[t].pc = "loop"
               /\ CountEvents(wrapper_get'[t].frames, "data") = 0 ]_vars

C18_Witness ==
    \E g \in GetWorkers :
      /\ get[g].pc = "wait"
      /\ get[g].expiries = 1
      /\ Len(get[g].frames) = 3
      /\ get[g].frames[1].event = "connection"
      /\ get[g].frames[2].event = "comment"
      /\ get[g].frames[2].delivered
      /\ get[g].frames[3].event = "data"
      /\ sse_queues[get[g].client_id] = g

(* The connection event came first, once, and names the stream's id. *)
ConnectionEventFirst(g) ==
    get[g].frames # << >> =>
      /\ get[g].frames[1].event = "connection"
      /\ get[g].frames[1].clientId = get[g].client_id
      /\ CountEvents(get[g].frames, "connection") = 1

(* The stream of g has yielded its connection event to a client that is    *)
(* still there, and waits for messages.                                    *)
Connected(g) == get[g].pc = "wait"

(* C19: on every SSE stream of main.py the first frame is the connection   *)
(* event with the stream's clientId, it is yielded once, and from the      *)
(* moment it is yielded the stream's client id is in the session map, so a *)
(* push to that id finds the session.                                      *)
C19_ConnectedMeansRegistered ==
    \A g \in GetWorkers :
      /\ ConnectionEventFirst(g)
      /\ Connected(g) => Registered(get[g].client_id)

(* The frames themselves are as the claim says. *)
C19_ConnectionEventOnce == \A g \in GetWorkers : ConnectionEventFirst(g)

(* The POST that claude_mcp_wrapper.py has just answered on /mcp or /mcp2, *)
(* and whether its processing ended in the handler's generic except        *)
(* clause.                                                                 *)
WrapperPostAnswered == exchange.server = "wrapper" /\ PathMatches(exchange.path)

WrapperPostFailed == exchange.response = WrapperOuterExcept(AttributeErrorGet)

(* A request main.py processed to a normal outcome: a registration, or a   *)
(* response object from mcp.handle_message.                                *)
NormalOutcome(p) ==
    /\ post[p].request_data.kind \in { "emptydict", "dict" }
    /\ \/ post[p].response_data.kind = "dict"
       \/ /\ post[p].request_data.messageType = "registerSSEClient"
          /\ post[p].request_data.clientId # ABSENT

(* C20: a POST to /mcp or /mcp2 is answered 400 when its body is no JSON,  *)
(* 500 when processing fails unexpectedly and 200 otherwise, by            *)
(* claude_mcp_wrapper.py and by main.py.                                   *)
C20_HttpStatus ==
    /\ WrapperPostAnswered =>
         exchange.status = IF exchange.line.kind = "malformed" THEN 400
                           ELSE IF WrapperPostFailed THEN 500
                           ELSE 200
    /\ \A p \in PostWorkers :
         post[p].pc = "done" =>
           /\ post[p].http.status \in { 200, 400, 500 }
           /\ post[p].http.status = 400 <=> post[p].request_data.kind = "malformed"
           /\ NormalOutcome(p) => post[p].http.status = 200

(* main.py alone, with the empty object set aside. *)
C20_MainHttpStatus ==
    \A p \in PostWorkers :
      ( post[p].pc = "done" /\ post[p].request_data.kind # "emptydict" ) =>
        /\ post[p].http.status \in { 200, 400, 500 }
        /\ post[p].http.status = 400 <=> post[p].request_data.kind = "malformed"
        /\ NormalOutcome(p) => post[p].http.status = 200
(***************************************************************************)
(* Properties of the dispatchers (Spec), continued.                        *)
(***************************************************************************)
WrapperJsonRpcHandled == JsonRpcHandled /\ exchange.server = "wrapper"

(* C21: on the POST transport of claude_mcp_wrapper a JSON-RPC 2.0 request *)
(* without id whose method starts with "notifications/" gets no response   *)
(* body.                                                                   *)
C21_WrapperNotificationSilent ==
    ( /\ WrapperJsonRpcHandled
      /\ Req.id = ABSENT
      /\ StartsWithNotifications(ReqMethod) )
    => exchange.written = << >>
(* The envelope of a response: whether there is one, whether it carries    *)
(* result, whether it carries error, and the error code (0 when the error  *)
(* is absent or a bare string).                                            *)
EnvelopeOf(response) ==
    [ responds |-> response # NoResponse,
      result |-> HasResult(response),
      error |-> HasError(response),
      code |-> response.error.code ]

(* Both dispatchers applied to the request being handled, with the same    *)
(* capability flag and the same outcome of the external process.           *)
SameEnvelope(proc) ==
    EnvelopeOf(StdioHandleRequest(Req, RAD_AVAILABLE, proc).response)
      = EnvelopeOf(WrapperDispatch(Req, RAD_AVAILABLE, proc).response)

(* C22: for the same decoded request and the same capability flag the      *)
(* stdio dispatcher and the POST dispatcher of claude_mcp_wrapper answer   *)
(* with the same envelope: both respond or both suppress, both carry       *)
(* result or both carry error, with the same code.                         *)
C22_SameEnvelope ==
    exchange.handled
    => \A proc \in ProcOutcomes \cup { NoProc } : SameEnvelope(proc)
(* The request being handled is not JSON-RPC 2.0. *)
LegacyHandled ==
    /\ exchange.handled
    /\ ~( Req.kind = "dict" /\ Req.jsonrpc = "2.0" )

SupportedLegacy == { "getMeta", "toolExecution", "registerSSEClient" }

(* A bare object with an error field: no jsonrpc, no id, not suppressed. *)
IsBareError(response) ==
    /\ response.kind = "bare"
    /\ response.jsonrpc = ABSENT
    /\ response.id = ABSENT
    /\ response.error.kind = "string"

(* C23: a request that is not JSON-RPC 2.0 and whose messageType is none   *)
(* of the legacy commands (or is missing) is answered, by either           *)
(* dispatcher, with a bare object that has an error field and no jsonrpc   *)
(* field, and the answer is written.                                       *)
C23_UnknownLegacyIsError ==
    ( LegacyHandled /\ Get(Req.messageType) \notin SupportedLegacy )
    => /\ IsBareError(exchange.response)
       /\ exchange.written = << exchange.response >>

C23_Witness ==
    /\ LegacyHandled
    /\ exchange.server = "stdio"
    /\ Req.kind = "dict"
    /\ Req.messageType = ABSENT
    /\ IsBareError(exchange.response)
    /\ exchange.written = << exchange.response >>
(* C24: a legacy getMeta request is answered, by either dispatcher, with a *)
(* bare object that has the fields title, description and tools and has no *)
(* jsonrpc and no id field.                                                *)
C24_LegacyGetMeta ==
    ( LegacyHandled /\ Req.kind = "dict" /\ Req.messageType = "getMeta" )
    => /\ exchange.response.kind = "bare"
       /\ exchange.response.jsonrpc = ABSENT
       /\ exchange.response.id = ABSENT
       /\ ~HasError(exchange.response)
       /\ exchange.response.top.title # ABSENT
       /\ exchange.response.top.description # ABSENT
       /\ exchange.response.top.kind = "legacyMeta"
       /\ exchange.response.top.tools # << >>
       /\ exchange.written = << exchange.response >>

(* The stdio dispatcher alone. *)
C24_StdioLegacyGetMeta == exchange.server = "stdio" => C24_LegacyGetMeta
(* claude_mcp_wrapper.py keeps no session map: do_GET (lines 226-240)      *)
(* registers nothing and the registerSSEClient branch (lines 440-441) only *)
(* builds the acknowledgement, so the set of client ids it has a session   *)
(* for is empty in every state.                                            *)
WrapperSessionIds == {}

(* The wrapper acknowledges a legacy registerSSEClient in this step. *)
WrapperAcknowledges ==
    /\ exchange'.server = "wrapper"
    /\ exchange' # exchange
    /\ exchange'.handled
    /\ exchange'.response.top.status = "registered"

(* main.py: the entry of a registered id goes away only when a GET stream  *)
(* of that id runs its finally clause.                                     *)
RemovedOnlyByClose ==
    \A client_id \in ClientIds :
      ( Registered(client_id) /\ sse_queues'[client_id] = NoQueue )
      => \E g \in GetWorkers : GetCloses(g) /\ get[g].client_id = client_id

(* main.py: the POST worker that acknowledges a registration leaves the id *)
(* in the session map.                                                     *)
RegistrationAcknowledged(p) ==
    PostRegisters(p) =>
      /\ post'[p].http = HttpResponse(200, "registered")
      /\ sse_queues'[post[p].request_data.clientId] # NoQueue

(* C25: once a legacy registerSSEClient request with a clientId has been   *)
(* acknowledged with {"status":"registered"}, the server has a session for *)
(* that id, and the session stays until it is unregistered, so that a      *)
(* later push finds it; in main.py and in claude_mcp_wrapper.py.           *)
C25_RegisteredAfterAck ==
    [][ /\ \A p \in PostWorkers : RegistrationAcknowledged(p)
        /\ RemovedOnlyByClose
        /\ WrapperAcknowledges => WrapperSessionIds # {} ]_vars

(* main.py alone. *)
C25_MainRegisteredAfterAck ==
    [][ /\ \A p \in PostWorkers : RegistrationAcknowledged(p)
        /\ RemovedOnlyByClose ]_vars
(* C26: a runner reports every failure (unknown tool, missing required     *)
(* parameter, non-zero exit, a process that cannot be started, parameters  *)
(* that are no mapping) in the error field of the result it returns; the   *)
(* call never raises to the dispatcher.                                    *)
C26_RunnerNeverRaises ==
    ( exchange.handled /\ exchange.calls > 0 )
    => /\ ~exchange.run.raised
       /\ ( exchange.run.result.output = ABSENT => exchange.run.result.error # ABSENT )

(* The failures the runner does report by a returned result. *)
C26_MappingParamsReturn ==
    ( /\ exchange.handled
      /\ exchange.calls > 0
      /\ Req.kind = "dict"
      /\ IsMapping(Req.params)
      /\ IsMapping(OrEmpty(Req.params.toolParams))
      /\ IsMapping(OrEmpty(Req.parameters)) )
    => ~exchange.run.raised
(* C27: whatever lines stdio main reads (requests, notifications, blank    *)
(* and malformed lines, in any order) before end of input or an interrupt, *)
(* it does not leave the loop through its outer except: the exit code is   *)
(* never 1.                                                                *)
C27_ExitCodeZero == program = "stdio" => main_pc # "return1"

(* Once a line has been decoded, main leaves the loop only with 0. *)
C27_ZeroAfterDecodedLine ==
    [][ ( main_pc = "loop" /\ main_pc' # "loop" /\ request_data.kind # "unbound" )
        => main_pc' = "return0" ]_vars
StdioHandled == exchange.handled /\ exchange.server = "stdio"

(* `return None`: Suppressed. *)
Suppressed == exchange.response = NoResponse

(* A response object was returned: Responded. *)
Responded == exchange.response.kind \in { "jsonrpc", "bare" }

(* C28: stdio handle_request ends every decoded request in exactly one of  *)
(* Responded and Suppressed, and Suppressed only for a JSON-RPC 2.0        *)
(* notification: never for a legacy request, never for a request with an   *)
(* id member.                                                              *)
C28_OneTerminalState ==
    StdioHandled =>
      /\ Responded # Suppressed
      /\ Suppressed => /\ Req.kind = "dict"
                       /\ Req.jsonrpc = "2.0"
                       /\ Req.id = ABSENT
                       /\ StartsWithNotifications(ReqMethod)

(* The same with the code's test `request_id is None`, which a null id     *)
(* passes as well.                                                         *)
C28_SuppressedOnlyIdNone ==
    StdioHandled =>
      /\ Responded # Suppressed
      /\ Suppressed => /\ Req.kind = "dict"
                       /\ Req.jsonrpc = "2.0"
                       /\ Get(Req.id) = NULL
                       /\ StartsWithNotifications(ReqMethod)
(* The request is one that may reach the runner: JSON-RPC executeTool or   *)
(* legacy toolExecution, naming a tool of the registry.                    *)
MayReachRunner ==
    /\ Req.kind = "dict"
    /\ IF Req.jsonrpc = "2.0"
       THEN /\ ReqMethod = "executeTool"
            /\ IsMapping(Req.params)
            /\ GetOr(Req.params.toolName, "") \in TOOLS
       ELSE /\ Get(Req.messageType) = "toolExecution"
            /\ Get(Req.toolName) \in TOOLS

(* C29: the handling of one request calls the tool runner at most once,    *)
(* and only for an executeTool or legacy toolExecution request that names  *)
(* a registered tool; initialize, getMetadata, getToolSpec, notifications, *)
(* unknown methods and unknown message types never call it.                *)
C29_RunnerAtMostOnce ==
    exchange.handled =>
      /\ exchange.calls <= 1
      /\ exchange.calls = 1 => MayReachRunner
      /\ exchange.spawned => exchange.calls = 1

C29_Witness ==
    /\ StdioHandled
    /\ exchange.calls = 1
    /\ Get(Req.messageType) = "toolExecution"
    /\ exchange.spawned
InitializeHandled == JsonRpcHandled /\ ReqMethod = "initialize"

(* An initialize result without the metadata descriptions embedded in it. *)
WithoutDescriptions(payload) ==
    [ payload EXCEPT !.description = ABSENT,
                     !.tools = [ i \in DOMAIN @ |-> @[i].name ] ]

(* What the dispatcher of `server` returns for the request of this         *)
(* exchange under the capability flag rad.                                 *)
DispatchOf(server, rad) ==
    IF server = "stdio"
    THEN StdioHandleRequest(Req, rad, NoProc).response
    ELSE WrapperDispatch(Req, rad, NoProc).response

(* The result does not depend on the capability flag, apart from the       *)
(* descriptions, nor on the requests handled before.                       *)
InitializeResultFixed ==
    /\ exchange.response = DispatchOf(exchange.server, RAD_AVAILABLE)
    /\ WithoutDescriptions(exchange.response.result)
         = WithoutDescriptions(DispatchOf(exchange.server, ~RAD_AVAILABLE).result)

(* C30: an initialize request is answered with a result whose              *)
(* protocolVersion is the request's params.protocolVersion when that is    *)
(* supplied and whose serverInfo.name is set; the result is the same       *)
(* whatever was handled before and whatever RAD_AVAILABLE is, apart from   *)
(* the embedded metadata descriptions.                                     *)
C30_InitializeResult ==
    InitializeHandled =>
      /\ HasResult(exchange.response)
      /\ exchange.response.result.serverInfoName # ABSENT
      /\ Req.params.protocolVersion # ABSENT
           => exchange.response.result.protocolVersion = Req.params.protocolVersion
      /\ InitializeResultFixed

(* The same for an initialize request whose params is an object or missing. *)
C30_ObjectParams ==
    ( InitializeHandled /\ IsMapping(Req.params) ) =>
      /\ HasResult(exchange.response)
      /\ exchange.response.result.serverInfoName # ABSENT
      /\ Req.params.protocolVersion # ABSENT
           => exchange.response.result.protocolVersion = Req.params.protocolVersion
      /\ InitializeResultFixed
(***************************************************************************)
(* Properties of the session hub (SpecHub), continued.                     *)
(***************************************************************************)
LastFrame(g) == get'[g].frames[Len(get'[g].frames)]

(* Stream g dequeues a message in this step and yields it as a data event. *)
EmitsHead(g) ==
    /\ Len(get'[g].frames) = Len(get[g].frames) + 1
    /\ LastFrame(g).event = "data"
    /\ LastFrame(g).message = Head(queues[g])

(* The numbers of the messages in the frames of a stream, in frame order. *)
RECURSIVE FrameNumbers(_)
FrameNumbers(frames) ==
    IF frames = << >> THEN << >>
    ELSE IF Head(frames).event \in { "data", "error" }
    THEN << Head(frames).message.n >> \o FrameNumbers(Tail(frames))
    ELSE FrameNumbers(Tail(frames))

QueueNumbers(q) == [ i \in DOMAIN q |-> q[i].n ]

Increasing(s) == \A i, j \in DOMAIN s : i < j => s[i] < s[j]

(* C31: every message pushed to a registered client while its stream is    *)
(* open is emitted on the stream as a data event, in the order of the      *)
(* pushes and once: each message the stream takes off its queue is the     *)
(* oldest one and becomes the next data event.                             *)
C31_DequeuedIsEmitted ==
    [][ \A g \in GetWorkers : GetMessage(g) => EmitsHead(g) ]_vars

(* The same for the messages that are JSON objects. *)
C31_ObjectsEmitted ==
    [][ \A g \in GetWorkers :
          ( GetMessage(g) /\ Head(queues[g]).kind = "dict" ) => EmitsHead(g) ]_vars

(* No reordering and no duplicate: the messages a stream has emitted and   *)
(* those still on its queue are in the order of their POST requests.       *)
C31_DataEventsInOrder ==
    \A g \in GetWorkers :
      Increasing(FrameNumbers(get[g].frames) \o QueueNumbers(queues[g]))
(***************************************************************************)
(* Properties of the runners (Spec), continued.                            *)
(***************************************************************************)
(* C32: a tool result has a data field only together with an output field  *)
(* whose text is a JSON object or array that parses; data is the parsed    *)
(* output, which is left as it was; a result with an error has no data.    *)
C32_DataOnlyForJsonOutput ==
    ( exchange.handled /\ exchange.run.result.data # ABSENT )
    => /\ exchange.run.result.output # ABSENT
       /\ StartsWithBracket(exchange.run.result.output)
       /\ JsonLoads(exchange.run.result.output)
       /\ exchange.run.result.data = exchange.run.result.output
       /\ exchange.run.result.output \in { Strip(t) : t \in Stdouts }
       /\ exchange.run.result.error = ABSENT

C32_Witness ==
    /\ StdioHandled
    /\ exchange.spawned
    /\ exchange.run.result.data = JsonArrayText
    /\ exchange.response.result.data = JsonArrayText
    /\ exchange.response.result.output = JsonArrayText
(***************************************************************************)
(* Properties of stdio main (Spec), continued.                             *)
(***************************************************************************)
(* main wrote an error response for a line that json.loads rejected. *)
ParseErrorWritten ==
    /\ exchange.server = "stdio"
    /\ exchange.line.kind = "malformed"
    /\ exchange.written # << >>

(* C33: the error response stdio main writes for a line that could not be  *)
(* parsed takes neither id nor jsonrpc from an earlier request: the line   *)
(* has no id of its own, so the response carries none.                     *)
C33_NoStaleId ==
    ParseErrorWritten =>
      \A i \in DOMAIN exchange.written :
        /\ exchange.written[i].id = ABSENT
        /\ exchange.written[i].jsonrpc = ABSENT

(* What the code does: the response carries the id and jsonrpc of the last *)
(* decoded request when that request had both members.                     *)
C33_IdOfLastDecoded ==
    ParseErrorWritten =>
      exchange.written = << StdioParseError(request_data) >>
(***************************************************************************)
(* Properties of executeTool (Spec), continued.                            *)
(***************************************************************************)
(* tool_params[key] for the keys a schema can name. *)
ParamValue(tool_params, key) ==
    CASE key = "name" -> tool_params.name
      [] key = "file" -> tool_params.file
      [] key = "namespace" -> tool_params.namespace
      [] OTHER -> tool_params.application

(* The executeTool request names a registered tool and gives a non-empty   *)
(* value to every parameter in the required list of its inputSchema.       *)
SuppliesRequired ==
    /\ JsonRpcHandled
    /\ ReqMethod = "executeTool"
    /\ IsMapping(Req.params)
    /\ GetOr(Req.params.toolName, "") \in TOOLS
    /\ Req.params.toolParams.kind = "map"
    /\ LET required == SchemaRequired(Req.params.toolName)
       IN  \A i \in DOMAIN required :
             ~Falsy(ParamValue(Req.params.toolParams, required[i]))

RejectedAsMissing ==
    \/ ContainsRequired(exchange.run.result.error)
    \/ ContainsRequired(exchange.response.error.message)

(* C34: in each server, an executeTool call on a registered tool that      *)
(* gives a non-empty value to every parameter its getToolSpec inputSchema  *)
(* lists as required is not rejected by the runner for a missing required  *)
(* parameter.                                                              *)
C34_RequiredSuffices == SuppliesRequired => ~RejectedAsMissing

(* The stdio server alone. *)
C34_StdioRequiredSuffices ==
    ( SuppliesRequired /\ exchange.server = "stdio" ) => ~RejectedAsMissing
(***************************************************************************)
(* Properties of the session hub (SpecHub): delivery.                      *)
(***************************************************************************)
(* The queues a stream reads: generate_sse_events reads only the queue it  *)
(* created itself (message_queue, line 250), as long as it has not ended.  *)
ReadQueues == { g \in GetWorkers : get[g].pc \notin { "idle", "closed" } }

(* Queue w holds an acknowledged result that no stream will ever take.     *)
(* A queue created by a registering POST (line 323) is read by nobody.     *)
Stranded(w) == queues[w] # << >> /\ w \in PostWorkers

(* C35: a result for which the POST was acknowledged with                  *)
(* {"status":"streaming"} is emitted as a data event once a stream of its  *)
(* client id is open and stays open; no acknowledged result lies in a      *)
(* queue that no stream reads.                                             *)
C35_NoStrandedResult == \A w \in GetWorkers \cup PostWorkers : ~Stranded(w)

(* A result put on a queue created by a stream is in the queue of a stream *)
(* that has not unregistered yet.                                          *)
C35_StreamQueuesRead ==
    [][ \A p \in PostWorkers :
          ( PostPush(p) /\ post'[p].http = HttpResponse(200, "streaming") )
          => LET w == sse_queues[post[p].request_data.clientId]
             IN  w \in PostWorkers \/ w \in ReadQueues ]_vars
(***************************************************************************)
(* Properties of the session hub (SpecHub): the push.                      *)
(***************************************************************************)
(* A POST worker is inside `with sse_queue_lock:` of lines 336-341, between *)
(* the membership test and the put.                                        *)
Pushing(p) == post[p].pc = "push"

(* Queue w grows in this step. *)
Enqueued(w) == Len(queues'[w]) > Len(queues[w])

(* The step puts the response of POST worker p on the queue that is the    *)
(* entry of its client id before and after the step.                       *)
PutOnRegistered(p, w) ==
    /\ Pushing(p)
    /\ sse_queue_lock = p
    /\ sse_queues[post[p].request_data.clientId] = w
    /\ sse_queues'[post[p].request_data.clientId] = w
    /\ queues'[w] = Append(queues[w], post[p].response_data)

(* C36: a message is put only on the queue that is registered for its      *)
(* client id at the instant of the put; no registration or unregistration  *)
(* happens between the membership test and the put, under every            *)
(* interleaving of the POST and GET workers.                               *)
C36_PushAtomic ==
    [][ /\ \A w \in GetWorkers \cup PostWorkers :
             Enqueued(w) => \E p \in PostWorkers : PutOnRegistered(p, w)
        /\ ( \E p \in PostWorkers : Pushing(p) ) => sse_queues' = sse_queues ]_vars

(* A stream that is on its way to unregister waits for the lock while the  *)
(* POST puts a message on its queue.                                       *)
C36_Witness ==
    \E p \in PostWorkers, g \in GetWorkers :
      /\ post[p].pc = "done"
      /\ post[p].http = HttpResponse(200, "streaming")
      /\ get[g].pc = "lock_fin"
      /\ sse_queues[get[g].client_id] = g
      /\ post[p].request_data.clientId = get[g].client_id
      /\ queues[g] # << >>
(***************************************************************************)
(* Properties of the session hub (SpecHub): the end of a stream.           *)
(***************************************************************************)
(* Stream g takes the close marker None off its queue in this step. *)
DequeuesSentinel(g) ==
    /\ get[g].pc = "wait"
    /\ queues[g] # << >>
    /\ Head(queues[g]).kind = "none"
    /\ queues'[g] = Tail(queues[g])

(* generate_sse_events has left its loop: it is in the finally clause or   *)
(* finished.                                                               *)
Ending(g) == get[g].pc \in { "lock_fin", "fin", "closed" }

(* C37: a stream that takes the close marker off its queue yields nothing  *)
(* for it and leaves the loop; from then on it yields no data event and no *)
(* keep-alive and takes nothing more off its queue, so messages behind the *)
(* marker are never emitted on it; it finishes by deleting the entry of    *)
(* its client id.                                                          *)
C37_SentinelEndsStream ==
    [][ \A g \in GetWorkers :
          /\ DequeuesSentinel(g)
               => /\ get'[g].pc = "lock_fin"
                  /\ get'[g].frames = get[g].frames
          /\ Ending(g)
               => /\ get'[g].frames = get[g].frames
                  /\ Len(queues'[g]) >= Len(queues[g])
                  /\ get'[g].pc \in { "lock_fin", "fin", "closed" }
          /\ ( get[g].pc # "closed" /\ get'[g].pc = "closed" )
               => sse_queues'[get[g].client_id] = NoQueue ]_vars

(* A stream has finished on the close marker with a message still behind   *)
(* it on the queue: every frame it yielded was delivered and none is an    *)
(* error event.                                                            *)
C37_Witness ==
    \E g \in GetWorkers :
      /\ get[g].pc = "closed"
      /\ queues[g] # << >>
      /\ \A i \in DOMAIN get[g].frames :
           get[g].frames[i].delivered /\ get[g].frames[i].event # "error"
(* The scheduling of the hub's threads: a thread that can take the free    *)
(* lock does so, and a thread inside a `with sse_queue_lock:` block runs   *)
(* to the end of the block, which is a few statements without a wait.      *)
SpecHubFair ==
    /\ SpecHub
    /\ \A g \in GetWorkers :
         WF_vars(GetAcquire(g)) /\ WF_vars(GetRegister(g)) /\ WF_vars(GetUnregister(g))
    /\ \A p \in PostWorkers :
         WF_vars(PostAcquire(p)) /\ WF_vars(PostRegister(p)) /\ WF_vars(PostPush(p))

(* C37, with the end of the stream: the above, and a stream that has left  *)
(* its loop finishes its finally clause.                                   *)
C37_SentinelClosesStream ==
    /\ C37_SentinelEndsStream
    /\ \A g \in GetWorkers : ( get[g].pc = "lock_fin" ) ~> ( get[g].pc = "closed" )
====
